---- MODULE Spec2Model ----
(***************************************************************************)
(* Model of the chat service (src/backend/chat_service/app.py): the        *)
(* connection registry (user_sid_map / sid_user_map), the Socket.IO        *)
(* handlers, the Redis bridge handle_redis_message, and the Redis-backed   *)
(* chat-history cache with its two read views.                             *)
(*                                                                         *)
(* Python values whose type matters are pairs <<type, text>>: the int 7 is *)
(* <<"int", "7">>, the str "7" is <<"str", "7">>.  Registry keys, room     *)
(* names and socket ids are always Python str and are plain strings here.  *)
(* Every handler is one action; what it does to the outside (database      *)
(* commit, Redis writes, Socket.IO emits) is recorded in order in `trace`, *)
(* which holds the effects of the handler that ran last.                   *)
(***************************************************************************)
EXTENDS Integers, Sequences, FiniteSets, TLC

VARIABLES
    user_sid_map,   \* app.py:42  identity -> list of socket ids
    sid_user_map,   \* app.py:43  socket id -> identity
    sessions,       \* transport: open socket id -> credential it connected with
    rooms,          \* transport: room name -> set of socket ids joined to it
    db,             \* chat.chat_messages: sequence of committed ChatMessage rows
    next_id,        \* the table's id sequence
    redis,          \* sorted sets: key -> sequence of [member, score], in rank order
    clock,          \* datetime.utcnow(), in ticks
    subscriber,     \* the thread of start_redis_subscriber: "listening" or "stopped"
    fanout,         \* the loop over an identity's connections the bridge is in
    meetings,       \* meetings.meetings of the meeting service: id -> row
    participants,   \* meetings.participants: set of [meeting_id, user_id]
    next_meeting_id,\* the id sequence of meetings.meetings
    last,           \* the event handled last, with its inputs
    trace           \* the ordered effects of the handler that ran last

vars == <<user_sid_map, sid_user_map, sessions, rooms, db, next_id, redis,
          clock, subscriber, fanout, meetings, participants, next_meeting_id,
          last, trace>>

registryVars == <<user_sid_map, sid_user_map>>
storeVars == <<db, next_id, redis, clock>>
bridgeVars == <<subscriber, fanout>>
meetingVars == <<meetings, participants, next_meeting_id>>
chatVars == <<user_sid_map, sid_user_map, sessions, rooms, db, next_id, redis,
              clock, subscriber, fanout>>

----------------------------------------------------------------------------
(* Bounds of the model *)

\* number of chat messages sent in one behaviour
MaxMessages == 2
\* last tick of the clock
MaxClock == 2
\* ticks per second of the clock (the code's clock has 10^6)
TicksPerSec == 2
\* largest global cap and per-sender cap the history views are read with
MaxLimit == 2
\* longest connection list the register operation is applied to
MaxRegistrations == 3
\* number of meetings created in one behaviour
MaxMeetings == 2

SIDS == {"s1", "s2"}
ChatSIDS == {"s1", "s2"}
Rooms == {"42", "lobby"}
\* the id the table's sequence hands out next when the service starts: an
\* empty table, or one that holds the rows of earlier meetings
InitialNextIds == {1, 9}
BusMeetingIds == {<<"int", "42">>, <<"none", "">>}

----------------------------------------------------------------------------
(* Python values *)

PyNone == <<"none", "">>
PyInt(s) == <<"int", s>>
PyStr(s) == <<"str", s>>

\* the decimal strings int() accepts
NumericStrings == {"0", "1", "7", "8", "42"}

\* str(v)
str(v) == IF v[1] = "none" THEN "None" ELSE v[2]

\* bool(v): None, 0 and "" are falsy
truthy(v) == ~(v[1] = "none" \/ v = <<"int", "0">> \/ v = <<"str", "">>)

\* int(s) of a str raises ValueError unless s is a decimal string
int_raises(s) == s \notin NumericStrings

\* s.startswith("guest_")
GuestIds == {"guest_a", "guest_b"}
startswith_guest(s) == s \in GuestIds

\* dict.get(k, default) on a dict modelled as a function
DictGet(d, k, default) == IF k \in DOMAIN d THEN d[k] ELSE default

EmptyDict == [k \in {} |-> PyNone]

\* list.remove(x): drops the first occurrence
RECURSIVE ListRemove(_, _)
ListRemove(l, x) ==
    IF l = <<>> THEN <<>>
    ELSE IF Head(l) = x THEN Tail(l)
    ELSE <<Head(l)>> \o ListRemove(Tail(l), x)

Range(l) == {l[i] : i \in DOMAIN l}

\* a function without one key (del d[k])
DictDel(d, k) == [x \in DOMAIN d \ {k} |-> d[x]]

\* d[k] = v, adding the key when absent
DictSet(d, k, v) == [x \in DOMAIN d \cup {k} |-> IF x = k THEN v ELSE d[x]]

----------------------------------------------------------------------------
(* Credentials.  A token is "" (none given), or a string one of the two    *)
(* decoders accepts, or "bad".                                             *)

Tokens == {"", "bad", "jwt_7", "jwt_guest_a", "raw_8"}

\* flask_jwt_extended.decode_token: the identity claim of the tokens it accepts
PrimarySub ==
    ("jwt_7" :> PyInt("7")) @@ ("jwt_guest_a" :> PyStr("guest_a"))

\* jwt.decode (PyJWT, HS256): the claims of the tokens only it accepts
SecondaryClaims ==
    ("raw_8" :> ("sub" :> PyStr("8"))) @@ ("raw_nosub" :> ("exp" :> PyInt("1")))

\* verify_jwt: [none |-> TRUE] for None, else the dict it returns
verify_jwt(token) ==
    IF token \in DOMAIN PrimarySub
        THEN [none |-> FALSE, d |-> ("user_id" :> PrimarySub[token])]
    ELSE IF token \in DOMAIN SecondaryClaims
        THEN [none |-> FALSE, d |-> SecondaryClaims[token]]
    ELSE [none |-> TRUE, d |-> EmptyDict]

\* the identity handle_connect registers a token under; "" when it registers none
connect_user_id(token) ==
    IF token = "" THEN ""
    ELSE LET decoded == verify_jwt(token) IN
         IF decoded.none \/ DOMAIN decoded.d = {} THEN ""
         ELSE str(DictGet(decoded.d, "sub",
                          DictGet(decoded.d, "user_id", PyStr(""))))

----------------------------------------------------------------------------
(* Transport: who receives an emit *)

Emit(event, kind, to, skip, data) ==
    [op |-> "emit", event |-> event, kind |-> kind, to |-> to, skip |-> skip,
     data |-> data]

\* the connections an emit recorded in the trace is delivered to, given the
\* open connections and the room membership at the time
Receivers(e, open, members) ==
    CASE e.kind = "sid" -> {e.to} \cap open
      [] e.kind = "room" ->
            (IF e.to \in DOMAIN members THEN members[e.to] ELSE {}) \ {e.skip}
      [] e.kind = "all" -> open

Emits == {i \in DOMAIN trace : trace[i].op = "emit"}

\* what the transport does with the emits of one handler run: the emit
\* numbered `at` fails (0: none does), either by raising out of emit() or by
\* returning without delivering anything
PushFault(at, raises) == [at |-> at, raises |-> raises]
NoPushFault == PushFault(0, FALSE)

\* the emits of a handler that take effect, for a handler that makes `emits`
\* in this order and catches nothing around any of them: an exception ends
\* the handler at the emit that raised
Performed(emits, emit_fault) ==
    IF emit_fault.at = 0 \/ emit_fault.at > Len(emits) THEN emits
    ELSE IF emit_fault.raises THEN SubSeq(emits, 1, emit_fault.at - 1)
    ELSE SubSeq(emits, 1, emit_fault.at - 1)
         \o SubSeq(emits, emit_fault.at + 1, Len(emits))

----------------------------------------------------------------------------
(* Connection registry *)

\* handle_connect, lines 420-430: the registry after registering sid under
\* the token's identity
\* a connect that registers a connection without identity as "anonymous"
Register_anonymous(reg, sid, token) ==
    LET user_id == IF connect_user_id(token) = "" THEN "anonymous"
                   ELSE connect_user_id(token)
        m == reg[1]
        m1 == IF user_id \notin DOMAIN m THEN DictSet(m, user_id, <<>>) ELSE m
    IN <<DictSet(m1, user_id, Append(m1[user_id], sid)),
         DictSet(reg[2], sid, user_id)>>

Register(reg, sid, token) ==
    LET user_id == connect_user_id(token) IN
    IF user_id = "" THEN reg
    ELSE LET m == reg[1]
             m1 == IF user_id \notin DOMAIN m THEN DictSet(m, user_id, <<>>) ELSE m
         IN <<DictSet(m1, user_id, Append(m1[user_id], sid)),
              DictSet(reg[2], sid, user_id)>>

UnregisterNoReverse(reg, sid) ==
    IF sid \in DOMAIN reg[2] THEN
        LET user_id == reg[2][sid]
            m == reg[1]
            m1 == IF user_id \in DOMAIN m
                     THEN LET l == ListRemove(m[user_id], sid) IN
                          IF l = <<>> THEN DictDel(m, user_id)
                          ELSE DictSet(m, user_id, l)
                     ELSE m
        IN <<m1, reg[2]>>
    ELSE reg

UnregisterKeepsList(reg, sid) ==
    IF sid \in DOMAIN reg[2] THEN <<reg[1], DictDel(reg[2], sid)>> ELSE reg

UnregisterKeepsEmpty(reg, sid) ==
    IF sid \in DOMAIN reg[2] THEN
        LET user_id == reg[2][sid]
            m == reg[1]
            m1 == IF user_id \in DOMAIN m
                     THEN DictSet(m, user_id, ListRemove(m[user_id], sid))
                     ELSE m
        IN <<m1, DictDel(reg[2], sid)>>
    ELSE reg

\* handle_disconnect, lines 445-451
Unregister(reg, sid) ==
    IF sid \in DOMAIN reg[2] THEN
        LET user_id == reg[2][sid]
            m == reg[1]
            m1 == IF user_id \in DOMAIN m
                     THEN LET l == ListRemove(m[user_id], sid) IN
                          IF l = <<>> THEN DictDel(m, user_id)
                          ELSE DictSet(m, user_id, l)
                     ELSE m
        IN <<m1, DictDel(reg[2], sid)>>
    ELSE reg

session_user_default(sid) ==
    IF sid \in DOMAIN sid_user_map THEN sid_user_map[sid] ELSE "anonymous"

\* lines 456-458, 543-545, 615-617, 669-671: the identity the registry holds
\* for the requesting connection; "" stands for None
session_user(sid) ==
    IF sid \in DOMAIN sid_user_map THEN sid_user_map[sid] ELSE ""

\* `user_id in user_sid_map`, `user_sid_map[user_id]` for a Python value:
\* the keys are str, so only a str can be found
InRegistry(v) == v[1] = "str" /\ v[2] \in DOMAIN user_sid_map
SidsOf(v) == user_sid_map[v[2]]

send_to_user_first_only(user_id, event, data) ==
    IF InRegistry(user_id)
        THEN [emits |-> <<Emit(event, "sid", SidsOf(user_id)[1], "", data)>>,
              ret |-> TRUE]
        ELSE [emits |-> <<>>, ret |-> FALSE]

\* send_to_user, lines 218-224: the emits it makes, in order, and its result
send_to_user(user_id, event, data) ==
    IF InRegistry(user_id)
        THEN [emits |-> [i \in DOMAIN SidsOf(user_id) |->
                            Emit(event, "sid", SidsOf(user_id)[i], "", data)],
              ret |-> TRUE]
        ELSE [emits |-> <<>>, ret |-> FALSE]

----------------------------------------------------------------------------
(* Timestamps.  A timestamp is an instant in ticks.  isoformat() prints the *)
(* fraction of the second only when it is not zero, so within one second    *)
(* the string of the whole second sorts after every string with a fraction  *)
(* ('.' < 'Z').                                                             *)

\* the rank of isoformat() + 'Z' of instant t in Python's string order
IsoKey(t) ==
    LET sec == t \div TicksPerSec
        frac == t % TicksPerSec
    IN sec * (TicksPerSec + 1) + (IF frac = 0 THEN TicksPerSec ELSE frac)

\* line 238, datetime.fromisoformat(...).timestamp(): the Redis score of the
\* message of instant t.  The string parses back to the instant it was
\* printed from, and the float of an instant keeps the order of instants
ScoreOf(t) == t

----------------------------------------------------------------------------
(* ChatMessage rows and their dicts *)

ChatMessage(id, meeting_id, user_id, guest_user_id, user_name, content, ts) ==
    [id |-> id, meeting_id |-> meeting_id, user_id |-> user_id,
     guest_user_id |-> guest_user_id, user_name |-> user_name,
     content |-> content, timestamp |-> ts]

to_dict_placeholder(row) ==
    [id |-> row.id, meeting_id |-> row.meeting_id, user_id |-> row.user_id,
     user_name |-> row.user_name, content |-> row.content,
     timestamp |-> row.timestamp, authenticated |-> "absent"]

\* ChatMessage.to_dict, lines 183-191; "authenticated" is the key
\* handle_chat_message adds afterwards, absent here
to_dict(row) ==
    [id |-> row.id, meeting_id |-> row.meeting_id,
     user_id |-> IF truthy(row.guest_user_id) THEN row.guest_user_id
                 ELSE row.user_id,
     user_name |-> row.user_name, content |-> row.content,
     timestamp |-> row.timestamp, authenticated |-> "absent"]

----------------------------------------------------------------------------
(* Redis sorted sets.  Members are the JSON texts of message dicts; equal   *)
(* scores are ranked by the bytes of the member.  json.dumps writes the id  *)
(* first, so two messages compare by the decimal text of their ids; the     *)
(* texts of one message differ only at the end, where ', "authenticated":   *)
(* false}' < ', "authenticated": true}' < '}'.                              *)

RECURSIVE Digits(_)
Digits(n) == IF n < 10 THEN <<n>> ELSE Append(Digits(n \div 10), n % 10)

\* bytewise order of two decimal texts, each followed by ','
RECURSIVE DigitsLess(_, _)
DigitsLess(a, b) ==
    IF a = <<>> THEN b # <<>>
    ELSE IF b = <<>> THEN FALSE
    ELSE IF Head(a) # Head(b) THEN Head(a) < Head(b)
    ELSE DigitsLess(Tail(a), Tail(b))

AuthRank(m) ==
    CASE m.authenticated = "false" -> 0
      [] m.authenticated = "true" -> 1
      [] OTHER -> 2

\* json.dumps(m1) < json.dumps(m2) as bytes
JsonLess(m1, m2) ==
    IF m1.id # m2.id THEN DigitsLess(Digits(m1.id), Digits(m2.id))
    ELSE AuthRank(m1) < AuthRank(m2)

EntryLess(e1, e2) ==
    \/ e1.score < e2.score
    \/ e1.score = e2.score /\ JsonLess(e1.member, e2.member)

\* ZADD key {member: score}: the member is ranked by (score, bytes); a member
\* already present only changes its score
ZAdd(z, member, score) ==
    LET rest == SelectSeq(z, LAMBDA e : e.member # member)
        new == [member |-> member, score |-> score]
        before == SelectSeq(rest, LAMBDA e : EntryLess(e, new))
        after == SelectSeq(rest, LAMBDA e : ~EntryLess(e, new))
    IN before \o <<new>> \o after

\* ZRANGE key start stop, with Redis's negative indexes; the members
ZRange(z, start, stop) ==
    LET n == Len(z)
        s0 == IF start < 0 THEN start + n ELSE start
        e0 == IF stop < 0 THEN stop + n ELSE stop
        s1 == IF s0 < 0 THEN 0 ELSE s0
        e1 == IF e0 >= n THEN n - 1 ELSE e0
    IN IF s1 > e1 \/ s1 >= n THEN <<>>
       ELSE [i \in 1..(e1 - s1 + 1) |-> z[s1 + i].member]

\* ZREMRANGEBYRANK key start stop
ZRemRangeByRank(z, start, stop) ==
    LET n == Len(z)
        s0 == IF start < 0 THEN start + n ELSE start
        e0 == IF stop < 0 THEN stop + n ELSE stop
        s1 == IF s0 < 0 THEN 0 ELSE s0
        e1 == IF e0 >= n THEN n - 1 ELSE e0
    IN IF s1 > e1 \/ s1 >= n THEN z
       ELSE SubSeq(z, 1, s1) \o SubSeq(z, e1 + 2, n)

HistoryKey(room) == <<"chat:history", room, "">>
UserKey(room, user_id) == <<"chat:user", room, str(user_id)>>

ZGet(r, key) == IF key \in DOMAIN r THEN r[key] ELSE <<>>

\* a key with no member left does not exist
ZPut(r, key, z) == IF z = <<>> THEN DictDel(r, key) ELSE DictSet(r, key, z)

\* the caps of the two sets: the ranks kept by the trims of lines 256, 258
RoomCap == 500
UserCap == 100
\* the candidates the limited view reads, line 309
ViewWindow == 1000

\* store_message_in_redis, lines 227-261.  fault is the command at which
\* Redis raises (0: none, 1: the first ZADD, 2: the ZADD of the sender's set);
\* the except clause leaves what was written before it
store_message_in_redis(r, room, message_data, fault) ==
    LET score == ScoreOf(message_data.timestamp)
        hk == HistoryKey(room)
        uk == UserKey(room, message_data.user_id)
        has_user == truthy(message_data.user_id)
        r1 == ZPut(r, hk, ZAdd(ZGet(r, hk), message_data, score))
        r2 == IF has_user
                 THEN ZPut(r1, uk, ZAdd(ZGet(r1, uk), message_data, score))
                 ELSE r1
        r3 == ZPut(r2, hk, ZRemRangeByRank(ZGet(r2, hk), 0, -(RoomCap + 1)))
        r4 == IF has_user
                 THEN ZPut(r3, uk, ZRemRangeByRank(ZGet(r3, uk), 0, -(UserCap + 1)))
                 ELSE r3
    IN CASE fault = 1 -> r
         [] fault = 2 -> IF has_user THEN r1 ELSE r4
         [] OTHER -> r4

\* list[-n:] for n >= 0; list[-0:] is the whole list
SliceLast(l, n) ==
    IF n = 0 \/ n >= Len(l) THEN l ELSE SubSeq(l, Len(l) - n + 1, Len(l))

TimestampKey(m) == IsoKey(m.timestamp)

\* sorted(l, key=lambda x: x.get('timestamp', '')): stable, ascending by the
\* timestamp string
RECURSIVE SortedByTimestamp(_)
SortedByTimestamp(l) ==
    IF l = <<>> THEN <<>>
    ELSE LET init == SortedByTimestamp(SubSeq(l, 1, Len(l) - 1))
             x == l[Len(l)]
             le == SelectSeq(init, LAMBDA y : TimestampKey(y) <= TimestampKey(x))
             gt == SelectSeq(init, LAMBDA y : TimestampKey(y) > TimestampKey(x))
         IN le \o <<x>> \o gt

\* get_chat_history, lines 274-293; down: Redis raises and [] is returned
get_chat_history(r, room, limit, down) ==
    IF down THEN <<>>
    ELSE ZRange(ZGet(r, HistoryKey(room)), -limit, -1)

\* the senders of a list of messages, in order of first appearance
RECURSIVE FirstSeen(_)
FirstSeen(l) ==
    IF l = <<>> THEN <<>>
    ELSE LET init == FirstSeen(SubSeq(l, 1, Len(l) - 1))
             u == l[Len(l)].user_id
         IN IF u \in Range(init) THEN init ELSE Append(init, u)

RECURSIVE Concat(_)
Concat(ls) == IF ls = <<>> THEN <<>> ELSE Head(ls) \o Concat(Tail(ls))

\* get_chat_history_with_user_limit, lines 295-341
get_chat_history_with_user_limit(r, room, global_limit, per_user_limit, down) ==
    IF down THEN <<>>
    ELSE
    LET all_messages == ZRange(ZGet(r, HistoryKey(room)), -ViewWindow, -1)
        users == FirstSeen(all_messages)
        of(u) == SelectSeq(all_messages, LAMBDA m : m.user_id = u)
        limited == Concat([i \in DOMAIN users |->
                      SliceLast(SortedByTimestamp(of(users[i])),
                                per_user_limit)])
        sorted == SortedByTimestamp(limited)
    IN IF Len(sorted) > global_limit THEN SliceLast(sorted, global_limit)
       ELSE sorted

----------------------------------------------------------------------------
(* The history endpoint, GET /api/v1/chat/history/<meeting_id> *)

\* ORDER BY timestamp ASC: ascending by the instant; rows of one instant come
\* in the order the database picks, here by id ascending or descending
RECURSIVE OrderByTimestamp(_, _)
OrderByTimestamp(rows, ties_desc) ==
    IF rows = <<>> THEN <<>>
    ELSE LET init == OrderByTimestamp(SubSeq(rows, 1, Len(rows) - 1), ties_desc)
             x == rows[Len(rows)]
             first(y) == \/ y.timestamp < x.timestamp
                         \/ y.timestamp = x.timestamp /\ ~ties_desc
         IN SelectSeq(init, first) \o <<x>> \o SelectSeq(init, LAMBDA y : ~first(y))

\* lines 373-376: filter_by(meeting_id).order_by(timestamp.asc()).limit(limit)
Query(d, meeting_id_int, limit, ties_desc) ==
    LET rows == OrderByTimestamp(
                    SelectSeq(d, LAMBDA row : row.meeting_id = meeting_id_int),
                    ties_desc)
    IN IF limit >= Len(rows) THEN rows ELSE SubSeq(rows, 1, limit)

\* lines 381-382: store_message_in_redis for each message, in order
RECURSIVE Backfill(_, _, _, _)
Backfill(r, room, messages, fault) ==
    IF messages = <<>> THEN r
    ELSE Backfill(store_message_in_redis(r, room, Head(messages), fault),
                  room, Tail(messages), fault)

\* get_meeting_chat_history, lines 344-388, for a request with a valid JWT:
\* the status, the messages of the response and the cache afterwards.
\* down: Redis raises while the cache is read; fault: the command at which
\* Redis raises in each store_message_in_redis of the backfill (0: none)
get_meeting_chat_history(r, d, meeting_id, limit, per_user_limit, down, fault, ties_desc) ==
    IF int_raises(meeting_id) THEN [code |-> 400, messages |-> <<>>, redis |-> r]
    ELSE
    LET cached == IF per_user_limit > 0
                    THEN get_chat_history_with_user_limit(r, meeting_id, limit,
                                                          per_user_limit, down)
                    ELSE get_chat_history(r, meeting_id, limit, down)
        db_messages == Query(d, PyInt(meeting_id), limit, ties_desc)
        messages == [i \in DOMAIN db_messages |-> to_dict(db_messages[i])]
    IN IF cached # <<>>
          THEN [code |-> 200, messages |-> cached, redis |-> r]
          ELSE [code |-> 200, messages |-> messages,
                redis |-> Backfill(r, meeting_id, messages, fault)]

\* a GET of the endpoint; jwt_ok: the request carries a JWT that
\* @jwt_required accepts
history_request(meeting_id, limit, per_user_limit, jwt_ok, down, fault, ties_desc) ==
    /\ LET response == get_meeting_chat_history(redis, db, meeting_id, limit,
                                                per_user_limit, down, fault,
                                                ties_desc)
       IN IF jwt_ok
             THEN /\ redis' = response.redis
                  /\ last' = [op |-> "history", meeting_id |-> meeting_id,
                              limit |-> limit, per_user_limit |-> per_user_limit,
                              code |-> response.code,
                              messages |-> response.messages]
             ELSE /\ redis' = redis
                  /\ last' = [op |-> "history", meeting_id |-> meeting_id,
                              limit |-> limit, per_user_limit |-> per_user_limit,
                              code |-> 401, messages |-> <<>>]
    /\ trace' = <<>>
    /\ UNCHANGED <<registryVars, sessions, rooms, db, next_id, clock, bridgeVars, meetingVars>>

----------------------------------------------------------------------------
(* Socket.IO handlers *)

\* @socketio.on('connect'): a new socket id connects with a credential
handle_connect(sid, token) ==
    /\ sid \notin DOMAIN sessions
    /\ sessions' = DictSet(sessions, sid, token)
    /\ LET reg == Register(<<user_sid_map, sid_user_map>>, sid, token) IN
       /\ user_sid_map' = reg[1]
       /\ sid_user_map' = reg[2]
    /\ last' = [op |-> "connect", sid |-> sid, token |-> token]
    /\ trace' = <<>>
    /\ UNCHANGED <<rooms, storeVars, bridgeVars, meetingVars>>

\* the body of handle_connect, lines 392-430, run for a connection whether
\* or not it is registered already: the handler does not look at what the
\* registry holds for request.sid
register(sid, token) ==
    /\ \A u \in DOMAIN user_sid_map : Len(user_sid_map[u]) < MaxRegistrations
    /\ sessions' = DictSet(sessions, sid, token)
    /\ LET reg == Register(<<user_sid_map, sid_user_map>>, sid, token) IN
       /\ user_sid_map' = reg[1]
       /\ sid_user_map' = reg[2]
    /\ last' = [op |-> "register", sid |-> sid, token |-> token]
    /\ trace' = <<>>
    /\ UNCHANGED <<rooms, storeVars, bridgeVars, meetingVars>>

\* line 450, `del user_sid_map[user_id]`, seen from a loop that iterates the
\* list: the list leaves the dict (m is the dict afterwards) and stays empty
Dropped(f, m) ==
    IF f.pc = "emitting" /\ f.key \notin DOMAIN m
        THEN [f EXCEPT !.attached = FALSE]
        ELSE f

\* @socketio.on('disconnect'): the transport closes sid and takes it out of
\* every room; the handler purges the registry
handle_disconnect(sid) ==
    /\ sid \in DOMAIN sessions
    /\ sessions' = DictDel(sessions, sid)
    /\ rooms' = [r \in DOMAIN rooms |-> rooms[r] \ {sid}]
    /\ LET reg == Unregister(<<user_sid_map, sid_user_map>>, sid) IN
       /\ user_sid_map' = reg[1]
       /\ sid_user_map' = reg[2]
    /\ last' = [op |-> "disconnect", sid |-> sid, user_id |-> session_user(sid)]
    /\ trace' = <<>>
    /\ fanout' = Dropped(fanout, Unregister(<<user_sid_map, sid_user_map>>, sid)[1])
    /\ UNCHANGED <<storeVars, subscriber, meetingVars>>

\* a handler that believes the identity the payload names
active_user_id_payload_first(sid, data_user_id) ==
    IF data_user_id # "" THEN data_user_id
    ELSE IF session_user(sid) # "" THEN session_user(sid)
    ELSE "temp_user_" \o sid

\* lines 464-470, 553-559: the identity a handler acts under
active_user_id(sid, data_user_id) ==
    IF session_user(sid) # "" THEN session_user(sid)
    ELSE IF data_user_id # "" THEN data_user_id
    ELSE "temp_user_" \o sid

\* "true" when the handler found sid in sid_user_map
authenticated(sid) ==
    IF sid \in DOMAIN sid_user_map THEN "true" ELSE "false"

\* @socketio.on('join_room'), lines 453-502.  room = "" is a request
\* without meeting_id; down: Redis raises while the history is read
handle_join_room(sid, room, data_user_id, user_name, down) ==
    /\ sid \in DOMAIN sessions
    /\ last' = [op |-> "join_room", sid |-> sid, room |-> room,
                data_user_id |-> data_user_id]
    /\ IF room # "" THEN
          LET messages == get_chat_history_with_user_limit(redis, room, 50, 5, down)
              joined == Emit("user_joined", "room", room, sid,
                             [user_id |-> active_user_id(sid, data_user_id),
                              user_name |-> user_name, room |-> room,
                              meeting_id |-> room,
                              authenticated |-> authenticated(sid)])
          IN /\ rooms' = DictSet(rooms, room, rooms[room] \cup {sid})
             /\ trace' = <<joined>> \o
                   (IF messages # <<>>
                      THEN <<Emit("chat_history", "sid", sid, "",
                                  [meeting_id |-> room, messages |-> messages])>>
                      ELSE <<>>)
       ELSE /\ rooms' = rooms
            /\ trace' = <<>>
    /\ UNCHANGED <<registryVars, sessions, storeVars, bridgeVars, meetingVars>>

\* @socketio.on('leave_room'), lines 504-538
handle_leave_room(sid, room, data_user_id, user_name) ==
    /\ sid \in DOMAIN sessions
    /\ last' = [op |-> "leave_room", sid |-> sid, room |-> room,
                data_user_id |-> data_user_id]
    /\ IF room # "" THEN
          /\ rooms' = DictSet(rooms, room, rooms[room] \ {sid})
          /\ trace' = <<Emit("user_left", "room", room, sid,
                             [user_id |-> active_user_id(sid, data_user_id),
                              user_name |-> user_name, room |-> room,
                              authenticated |-> authenticated(sid)])>>
       ELSE /\ rooms' = rooms
            /\ trace' = <<>>
    /\ UNCHANGED <<registryVars, sessions, storeVars, bridgeVars, meetingVars>>

\* lines 569-588: whether building the row raises (int() of the room or of
\* a sender that is no guest id)
row_raises(room, active) ==
    \/ int_raises(room)
    \/ ~startswith_guest(active) /\ int_raises(active)

\* lines 571-588: the row built for the message
new_message(id, room, active, user_name, content, ts) ==
    IF startswith_guest(active)
        THEN ChatMessage(id, PyInt(room), PyInt("1"), PyStr(active), user_name,
                         content, ts)
        ELSE ChatMessage(id, PyInt(room), PyInt(active), PyNone, user_name,
                         content, ts)

SendEffects_emit_first(row, room, message_data, fault) ==
    << Emit("chat_message", "room", room, "", message_data),
       [op |-> "db_commit", id |-> row.id],
       [op |-> "redis_store", id |-> row.id, fault |-> fault] >>

SendEffects_store_error_surfaces(row, room, message_data, fault) ==
    IF fault = 0
        THEN << [op |-> "db_commit", id |-> row.id],
                [op |-> "redis_store", id |-> row.id, fault |-> fault],
                Emit("chat_message", "room", room, "", message_data) >>
        ELSE << [op |-> "db_commit", id |-> row.id],
                [op |-> "redis_store", id |-> row.id, fault |-> fault],
                [op |-> "db_rollback"],
                Emit("message_error", "all", "", "",
                     [error |-> "Failed to save message"]) >>

\* lines 590-602: what the handler does once the row is built and the
\* commit succeeded, in order
SendEffects(row, room, message_data, fault) ==
    << [op |-> "db_commit", id |-> row.id],
       [op |-> "redis_store", id |-> row.id, fault |-> fault],
       Emit("chat_message", "room", room, "", message_data) >>

FailEffects_to_room(sid) ==
    << [op |-> "db_rollback"],
       Emit("message_error", "room", "42", "", [error |-> "Failed to save message"]) >>

\* lines 603-607: the except clause
FailEffects(sid) ==
    << [op |-> "db_rollback"],
       Emit("message_error", "sid", sid, "", [error |-> "Failed to save message"]) >>

\* lines 590-607 when a statement after the commit raises.  late is that
\* statement: "refresh", the read of the committed row (lines 592, 595: the
\* session expires the row at the commit and loads it again), or "emit",
\* the broadcast of line 602.  The except clause runs as for any failure
LateEffects(sid, row, fault, late) ==
    << [op |-> "db_commit", id |-> row.id] >>
    \o (IF late = "emit"
           THEN << [op |-> "redis_store", id |-> row.id, fault |-> fault] >>
           ELSE <<>>)
    \o << [op |-> "db_rollback"],
          Emit("message_error", "sid", sid, "", [error |-> "Failed to save message"]) >>

\* the rows committed since the start of the behaviour, at instant 0; rows
\* of earlier instants were in the table before
SentSinceStart == Cardinality({i \in DOMAIN db : db[i].timestamp >= 0})

\* @socketio.on('chat_message'), lines 540-610.  db_ok: the database accepts
\* the insert; fault: see store_message_in_redis; late: the statement after
\* the commit that raises, "none" when none does.  The row's timestamp is
\* utcnow() at the insert
handle_chat_message(sid, room, content, data_user_id, user_name, db_ok, fault, late) ==
    /\ sid \in DOMAIN sessions
    /\ LET active == active_user_id(sid, data_user_id) IN
       IF room # "" /\ content # "" THEN
          IF ~row_raises(room, active) /\ db_ok THEN
             LET row == new_message(next_id, room, active, user_name, content, clock)
                 message_data == [to_dict(row) EXCEPT !.authenticated = authenticated(sid)]
             IN /\ SentSinceStart < MaxMessages
                /\ db' = Append(db, row)
                /\ next_id' = next_id + 1
                /\ clock' = clock
                /\ redis' = IF late = "refresh" THEN redis
                            ELSE store_message_in_redis(redis, room, message_data, fault)
                /\ trace' = IF late = "none"
                               THEN SendEffects(row, room, message_data, fault)
                               ELSE LateEffects(sid, row, fault, late)
                /\ last' = [op |-> "chat_message", sid |-> sid, room |-> room,
                            content |-> content, data_user_id |-> data_user_id,
                            db_ok |-> db_ok, fault |-> fault, active |-> active,
                            outcome |-> IF late = "none" THEN "sent"
                                        ELSE "failed_after_commit",
                            id |-> row.id]
          ELSE
             /\ trace' = FailEffects(sid)
             /\ last' = [op |-> "chat_message", sid |-> sid, room |-> room,
                         content |-> content, data_user_id |-> data_user_id,
                         db_ok |-> db_ok, fault |-> fault, active |-> active,
                         outcome |-> "failed", id |-> 0]
             /\ UNCHANGED storeVars
       ELSE
          /\ trace' = <<Emit("message_error", "sid", sid, "",
                             [error |-> "Missing room or message content"])>>
          /\ last' = [op |-> "chat_message", sid |-> sid, room |-> room,
                      content |-> content, data_user_id |-> data_user_id,
                      db_ok |-> db_ok, fault |-> fault, active |-> active,
                      outcome |-> "missing", id |-> 0]
          /\ UNCHANGED storeVars
    /\ UNCHANGED <<registryVars, sessions, rooms, bridgeVars, meetingVars>>

ScopedError(event, sid, text) == <<Emit(event, "sid", sid, "", [error |-> text])>>

\* @socketio.on('meeting_update'), lines 612-664.  meeting_id = "" is a
\* request without one; target is the request's user_id (None when absent);
\* status = "" is a request without status
handle_meeting_update(sid, meeting_id, target, status, emit_fault) ==
    /\ sid \in DOMAIN sessions
    /\ last' = [op |-> "meeting_update", sid |-> sid, meeting_id |-> meeting_id,
                target |-> target, emit_fault |-> emit_fault]
    /\ IF session_user(sid) = "" THEN
          trace' = Performed(ScopedError("update_error", sid,
                                         "Authentication required"), emit_fault)
       ELSE IF meeting_id = "" THEN
          trace' = Performed(ScopedError("update_error", sid, "Missing meeting_id"),
                             emit_fault)
       ELSE
          LET notification_data ==
                 [meeting_id |-> meeting_id, sender_id |-> session_user(sid)]
                 @@ (IF status # "" THEN ("status" :> status) ELSE EmptyDict)
              direct == send_to_user(target, "meeting_update", notification_data)
              to_room == <<Emit("meeting_update", "room", meeting_id, "",
                                notification_data)>>
          IN trace' = Performed(IF truthy(target)
                                  THEN (IF direct.ret THEN direct.emits ELSE to_room)
                                  ELSE to_room,
                                emit_fault)
    /\ UNCHANGED <<registryVars, sessions, rooms, storeVars, bridgeVars, meetingVars>>

\* @socketio.on('meeting_invitation'), lines 666-711
handle_meeting_invitation(sid, meeting_id, target, emit_fault) ==
    /\ sid \in DOMAIN sessions
    /\ last' = [op |-> "meeting_invitation", sid |-> sid,
                meeting_id |-> meeting_id, target |-> target,
                emit_fault |-> emit_fault]
    /\ IF session_user(sid) = "" THEN
          trace' = Performed(ScopedError("invitation_error", sid,
                                         "Authentication required"), emit_fault)
       ELSE IF meeting_id = "" \/ ~truthy(target) THEN
          trace' = Performed(ScopedError("invitation_error", sid,
                                         "Missing required data"), emit_fault)
       ELSE
          LET invitation_data ==
                 [meeting_id |-> meeting_id, user_id |-> target,
                  sender_id |-> session_user(sid)]
              direct == send_to_user(target, "meeting_invitation", invitation_data)
          IN trace' = Performed(IF direct.ret THEN direct.emits
                                ELSE <<Emit("meeting_invitation", "all", "", "",
                                            invitation_data)>>,
                                emit_fault)
    /\ UNCHANGED <<registryVars, sessions, rooms, storeVars, bridgeVars, meetingVars>>

----------------------------------------------------------------------------
(* The bridge: messages of the 'meeting_events' channel *)

\* a message of the channel: its type, whether its data decodes, and the
\* fields of the decoded event (meeting_id, participant_ids, invited_user_id,
\* new_status, user_id).  participant_ids is a list, or NoList for a JSON null
BusMessage(type, decodable, event_type, mid, pids, invited, status, uid) ==
    [type |-> type, decodable |-> decodable, event_type |-> event_type,
     meeting_id |-> mid, participant_ids |-> pids,
     invited_user_id |-> invited, new_status |-> status, user_id |-> uid]

\* participant_ids None (a JSON null): no list, marked by an element no list
\* of identities holds
NoList == << <<"null", "">> >>

ParticipantLists ==
    { <<>>, <<PyStr("guest_a"), PyInt("7")>>, <<PyInt("8")>> }

BusMessages ==
    { BusMessage("subscribe", TRUE, "", PyNone, <<>>, PyNone, PyNone, PyNone),
      BusMessage("message", FALSE, "", PyNone, <<>>, PyNone, PyNone, PyNone) }
    \cup { BusMessage("message", TRUE, t, m, <<>>, PyNone, PyNone, PyNone) :
             t \in {"meeting_created", "meeting_updated", "bogus"},
             m \in BusMeetingIds }
    \cup { BusMessage("message", TRUE, "meeting_deleted", m, p, PyNone, PyNone, PyNone) :
             m \in BusMeetingIds, p \in ParticipantLists }
    \cup { BusMessage("message", TRUE, "meeting_deleted", m, NoList, PyNone, PyNone, PyNone) :
             m \in BusMeetingIds }
    \cup { BusMessage("message", TRUE, "participant_added", m, <<>>, i, PyNone, PyNone) :
             m \in BusMeetingIds, i \in {PyNone, PyInt("7"), PyInt("8")} }
    \cup { BusMessage("message", TRUE, "participant_status_updated", m, <<>>,
                      PyNone, st, u) :
             m \in BusMeetingIds, st \in {PyNone, PyStr("accepted")},
             u \in {PyNone, PyInt("7")} }

DeletedPushes_none(data) == <<>>

\* lines 93-103: the direct pushes of meeting_deleted, participant by
\* participant, connection by connection
DeletedPushes(data) ==
    Concat([i \in DOMAIN data.participant_ids |->
        LET key == PyStr(str(data.participant_ids[i])) IN
        IF InRegistry(key)
            THEN [j \in DOMAIN SidsOf(key) |->
                    Emit("meeting_update", "sid", SidsOf(key)[j], "",
                         [meeting_id |-> data.meeting_id, status |-> "deleted",
                          message |-> "A meeting you were invited to has been canceled"])]
            ELSE <<>>])

\* a bridge that invites the whole room in place of the invited identity
Dispatch_invite_room(data) ==
    IF data.event_type = "participant_added"
        THEN <<Emit("meeting_invitation", "room", str(data.meeting_id), "",
                    [meeting_id |-> data.meeting_id,
                     user_id |-> data.invited_user_id])>>
        ELSE <<>>

\* a bridge that announces every event it has no branch for to the room
Dispatch_announce_unknown(data) ==
    IF data.event_type \in {"meeting_updated", "meeting_deleted",
                            "participant_added", "participant_status_updated"}
        THEN <<>>
        ELSE <<Emit("meeting_update", "room", str(data.meeting_id), "",
                    [meeting_id |-> data.meeting_id])>>

\* lines 66-142: the emits for a decoded event that names a meeting
Dispatch(data) ==
    LET room_name == str(data.meeting_id) IN
    CASE data.event_type = "meeting_created" -> <<>>
      [] data.event_type = "meeting_updated" ->
            <<Emit("meeting_update", "room", room_name, "",
                   [meeting_id |-> data.meeting_id,
                    message |-> "The meeting details have been updated"])>>
      [] data.event_type = "meeting_deleted" ->
            <<Emit("meeting_update", "room", room_name, "",
                   [meeting_id |-> data.meeting_id, status |-> "deleted",
                    message |-> "This meeting has been canceled"])>>
            \o (IF data.participant_ids = NoList THEN <<>>
                ELSE DeletedPushes(data))
      [] data.event_type = "participant_added" ->
            LET key == PyStr(str(data.invited_user_id)) IN
            IF truthy(data.invited_user_id) /\ InRegistry(key)
                THEN [j \in DOMAIN SidsOf(key) |->
                        Emit("meeting_invitation", "sid", SidsOf(key)[j], "",
                             [meeting_id |-> data.meeting_id,
                              user_id |-> data.invited_user_id])]
                ELSE <<>>
      [] data.event_type = "participant_status_updated" ->
            IF truthy(data.new_status) /\ truthy(data.user_id)
                THEN <<Emit("meeting_update", "room", room_name, "",
                            [meeting_id |-> data.meeting_id,
                             participant_id |-> data.user_id,
                             status |-> str(data.new_status)])>>
                ELSE <<>>
      [] OTHER -> <<>>

\* no loop is running
NoFanout ==
    [pc |-> "idle",
     message |-> BusMessage("subscribe", TRUE, "", PyNone, <<>>, PyNone, PyNone, PyNone),
     key |-> "", idx |-> 0, attached |-> FALSE, began |-> {}, emits |-> <<>>]

\* the exception raised while the message is processed, "" when none:
\* json.loads of line 53 on a payload that is no JSON, the for of line 94 on
\* participant_ids None
Raised(message) ==
    IF message.type # "message" THEN ""
    ELSE IF ~message.decodable THEN "JSONDecodeError"
    ELSE IF ~truthy(message.meeting_id) THEN ""
    ELSE IF message.event_type = "meeting_deleted" /\ message.participant_ids = NoList
        THEN "TypeError"
    ELSE ""

\* the classes `except Exception` catches
ExceptionClasses == {"JSONDecodeError", "UnicodeDecodeError", "TypeError"}

Escapes_uncaught(message) == Raised(message)

\* lines 50, 144-145: the exception that leaves handle_redis_message, "" when
\* none does
Escapes(message) ==
    IF Raised(message) \in ExceptionClasses THEN "" ELSE Raised(message)

\* one round of the loop of start_redis_subscriber, lines 157-160, with
\* handle_redis_message, lines 49-145: the emits made up to the exception, if
\* any; an exception that reaches the loop ends the thread.  An exception
\* of an emit is caught by the except clause of line 144 like any other
handle_redis_message(message, emit_fault) ==
    /\ subscriber = "listening"
    /\ last' = [op |-> "bus", message |-> message, emit_fault |-> emit_fault]
    /\ trace' = IF message.type # "message" \/ ~message.decodable
                   \/ ~truthy(message.meeting_id)
                  THEN <<>>
                  ELSE Performed(Dispatch(message), emit_fault)
    /\ subscriber' = IF Escapes(message) = "" THEN "listening" ELSE "stopped"
    /\ UNCHANGED <<registryVars, sessions, rooms, storeVars, fanout, meetingVars>>

\* lines 156-160: pubsub.listen() raises, the connection to Redis being
\* lost; the except clause logs and start_redis_subscriber returns, which
\* ends the thread
listen_raises ==
    /\ subscriber = "listening"
    /\ fanout.pc # "emitting"
    /\ subscriber' = "stopped"
    /\ last' = [op |-> "bus_lost"]
    /\ trace' = <<>>
    /\ UNCHANGED <<registryVars, sessions, rooms, storeVars, fanout, meetingVars>>

\* a supervisor that starts the subscriber again when an event arrives
publish_unheard_restarts(message) ==
    /\ subscriber = "stopped"
    /\ subscriber' = "listening"
    /\ last' = [op |-> "bus_unheard", message |-> message]
    /\ trace' = IF message.type # "message" \/ ~message.decodable
                   \/ ~truthy(message.meeting_id)
                  THEN <<>>
                  ELSE Dispatch(message)
    /\ UNCHANGED <<registryVars, sessions, rooms, storeVars, fanout, meetingVars>>

\* an event is published on 'meeting_events' after the thread has ended:
\* lines 163-166 start the thread once, nothing starts it again, so no code
\* of the service runs for the event
publish_unheard(message) ==
    /\ subscriber = "stopped"
    /\ subscriber' = subscriber
    /\ last' = [op |-> "bus_unheard", message |-> message]
    /\ trace' = <<>>
    /\ UNCHANGED <<registryVars, sessions, rooms, storeVars, fanout, meetingVars>>

----------------------------------------------------------------------------
(* The bridge as the scheduler runs it.  The service runs on eventlet       *)
(* (line 3) with a Redis message queue (line 39): socketio.emit publishes   *)
(* to Redis and yields, so the Socket.IO handlers run between two emits of  *)
(* a loop.  The handlers themselves do not yield while they touch the       *)
(* registry.  Nothing in the file locks the registry.                       *)

\* the invitation of lines 117-124
Invitation(message, sid) ==
    Emit("meeting_invitation", "sid", sid, "",
         [meeting_id |-> message.meeting_id, user_id |-> message.invited_user_id])

\* lines 49-64, 112-117 for a participant_added event: the test of line 115,
\* the first element of the iteration of line 116 and its emit, inside which
\* the thread yields
bridge_begin(message) ==
    /\ subscriber = "listening"
    /\ fanout.pc # "emitting"
    /\ message.type = "message" /\ message.decodable
    /\ truthy(message.meeting_id)
    /\ message.event_type = "participant_added"
    /\ LET key == PyStr(str(message.invited_user_id)) IN
       IF truthy(message.invited_user_id) /\ InRegistry(key)
          THEN /\ fanout' = [pc |-> "emitting", message |-> message,
                             key |-> key[2], idx |-> 1, attached |-> TRUE,
                             began |-> Range(SidsOf(key)),
                             emits |-> <<Invitation(message, SidsOf(key)[1])>>]
               /\ trace' = <<Invitation(message, SidsOf(key)[1])>>
          ELSE /\ fanout' = [NoFanout EXCEPT !.pc = "done", !.message = message]
               /\ trace' = <<>>
    /\ last' = [op |-> "bus", message |-> message,
                emit_fault |-> NoPushFault]
    /\ UNCHANGED <<registryVars, sessions, rooms, storeVars, subscriber, meetingVars>>

\* the emit returns and the for of line 116 takes its next element: the one
\* at the iterator's index in the list as it is now, or none when the index
\* is past the end; the list that left the dict is empty
bridge_emit ==
    /\ fanout.pc = "emitting"
    /\ LET list == IF fanout.attached THEN user_sid_map[fanout.key] ELSE <<>> IN
       IF fanout.idx < Len(list)
          THEN LET e == Invitation(fanout.message, list[fanout.idx + 1]) IN
               /\ fanout' = [fanout EXCEPT !.idx = @ + 1, !.emits = Append(@, e)]
               /\ trace' = Append(fanout.emits, e)
          ELSE /\ fanout' = [fanout EXCEPT !.pc = "done"]
               /\ trace' = fanout.emits
    /\ last' = [op |-> "bus", message |-> fanout.message,
                emit_fault |-> NoPushFault]
    /\ UNCHANGED <<registryVars, sessions, rooms, storeVars, subscriber, meetingVars>>

----------------------------------------------------------------------------

\* time passes: datetime.utcnow() (line 177) reads one tick later
Tick ==
    /\ clock < MaxClock
    /\ clock' = clock + 1
    /\ UNCHANGED <<registryVars, sessions, rooms, db, next_id, redis, bridgeVars,
                   meetingVars, last, trace>>

----------------------------------------------------------------------------
(* The meeting service (src/backend/meeting_service/app.py).  A datetime of *)
(* a request body is its instant and whether its text carries a UTC offset  *)
(* ("...Z"): Pydantic and fromisoformat make an aware datetime of such a    *)
(* text and a naive one otherwise.  The columns are TIMESTAMP, so a stored  *)
(* time is read back naive.                                                 *)

DateTime(t, aware) == [t |-> t, aware |-> aware]
\* the key is absent from the body
NoTime == [t |-> -1, aware |-> FALSE]

\* a < b, a <= b between datetimes raise TypeError when one is aware and the
\* other naive
compare_raises(a_aware, b_aware) == a_aware # b_aware

\* a row of meetings.meetings
Meeting(id, title, start_time, end_time, owner_id, guest_owner_id) ==
    [id |-> id, title |-> title, start_time |-> start_time,
     end_time |-> end_time, owner_id |-> owner_id,
     guest_owner_id |-> guest_owner_id]

\* isinstance(current_user_id, str) and current_user_id.startswith("guest_")
is_guest(current_user_id) ==
    current_user_id[1] = "str" /\ startswith_guest(current_user_id[2])

\* lines 212-218, 435-440, 523-527, 590-594: is_owner
is_owner(meeting, current_user_id) ==
    IF is_guest(current_user_id)
        THEN meeting.guest_owner_id = current_user_id
        ELSE meeting.owner_id = current_user_id

\* lines 221-226: is_participant
is_participant(meeting, current_user_id) ==
    /\ ~is_guest(current_user_id)
    /\ [meeting_id |-> meeting.id, user_id |-> current_user_id] \in participants

\* one redis_client.publish
Publish(channel, event_type, meeting_id) ==
    [op |-> "publish", channel |-> channel, event_type |-> event_type,
     meeting_id |-> meeting_id]

\* publish_meeting_event, lines 67-92: the publishes made, in order.
\* bus_fault is the publish at which Redis raises (0: none); the except
\* clause logs and returns.  The channels are 'meeting_events', the channel
\* of the event type and the channel of the meeting
publish_meeting_event(event_type, meeting_id, bus_fault) ==
    LET all == << Publish("meeting_events", event_type, meeting_id),
                  Publish("meeting_events.<event_type>", event_type, meeting_id),
                  Publish("meeting_events.<meeting_id>", event_type, meeting_id) >>
    IN IF bus_fault = 0 THEN all ELSE SubSeq(all, 1, bus_fault - 1)

Commit(table) == [op |-> "db_commit", table |-> table]
Rollback == [op |-> "db_rollback"]

\* the body of a POST or PUT: title "" and NoTime stand for absent keys
UpdateBody(title, start_time, end_time) ==
    [title |-> title, start_time |-> start_time, end_time |-> end_time]

NoBody == UpdateBody("", NoTime, NoTime)

\* the request, what the database and the bus did while it was served, and
\* the response as the client sees it
Response(op, current_user_id, meeting_id, request, db_ok, bus_fault, code, body) ==
    [op |-> op, caller |-> current_user_id, meeting_id |-> meeting_id,
     request |-> request, db_ok |-> db_ok, bus_fault |-> bus_fault,
     code |-> code, body |-> body]

\* GET /api/v1/meetings, lines 177-197: the ids of the meetings listed
get_meetings(current_user_id) ==
    /\ last' = Response("get_meetings", current_user_id, 0, NoBody, TRUE, 0, 200,
                   {i \in DOMAIN meetings :
                       IF is_guest(current_user_id)
                          THEN meetings[i].guest_owner_id = current_user_id
                          ELSE meetings[i].owner_id = current_user_id})
    /\ trace' = <<>>
    /\ UNCHANGED <<chatVars, meetingVars>>

\* GET /api/v1/meetings/<id>, lines 199-237
get_meeting_detail(current_user_id, meeting_id) ==
    /\ last' = Response("get_meeting_detail", current_user_id, meeting_id,
                   NoBody, TRUE, 0,
                   IF meeting_id \notin DOMAIN meetings THEN 404
                   ELSE IF ~is_owner(meetings[meeting_id], current_user_id)
                           /\ ~is_participant(meetings[meeting_id], current_user_id)
                        THEN 403
                   ELSE 200, {})
    /\ trace' = <<>>
    /\ UNCHANGED <<chatVars, meetingVars>>

\* POST /api/v1/meetings, lines 256-418.  title = "" fails the schema;
\* db_ok: the database takes the transaction
create_meeting(current_user_id, title, start_time, end_time, db_ok, bus_fault) ==
    /\ next_meeting_id <= MaxMeetings
    /\ LET id == next_meeting_id
           row == IF is_guest(current_user_id)
                    THEN Meeting(id, title, start_time.t, end_time.t, PyInt("1"),
                                 current_user_id)
                    ELSE Meeting(id, title, start_time.t, end_time.t,
                                 current_user_id, PyNone)
       IN
       IF title = "" THEN
          /\ last' = Response("create_meeting", current_user_id, 0,
                            UpdateBody(title, start_time, end_time), db_ok,
                            bus_fault, 400, {})
          /\ trace' = <<>>
          /\ UNCHANGED meetingVars
       ELSE IF compare_raises(end_time.aware, start_time.aware) THEN
          /\ last' = Response("create_meeting", current_user_id, 0,
                            UpdateBody(title, start_time, end_time), db_ok,
                            bus_fault, 500, {})
          /\ trace' = <<>>
          /\ UNCHANGED meetingVars
       ELSE IF end_time.t <= start_time.t THEN
          /\ last' = Response("create_meeting", current_user_id, 0,
                            UpdateBody(title, start_time, end_time), db_ok,
                            bus_fault, 400, {})
          /\ trace' = <<>>
          /\ UNCHANGED meetingVars
       ELSE IF ~db_ok THEN
          /\ last' = Response("create_meeting", current_user_id, 0,
                            UpdateBody(title, start_time, end_time), db_ok,
                            bus_fault, 500, {})
          /\ trace' = <<Rollback>>
          /\ UNCHANGED meetingVars
       ELSE
          /\ meetings' = DictSet(meetings, id, row)
          /\ participants' =
                IF is_guest(current_user_id) THEN participants
                ELSE participants \cup {[meeting_id |-> id, user_id |-> current_user_id]}
          /\ next_meeting_id' = id + 1
          /\ last' = Response("create_meeting", current_user_id, id,
                            UpdateBody(title, start_time, end_time), db_ok,
                            bus_fault, 201, {})
          /\ trace' = <<Commit("meetings")>>
                       \o publish_meeting_event("meeting_created", id, bus_fault)
    /\ UNCHANGED chatVars

\* PUT /api/v1/meetings/<id>, lines 420-504
update_meeting(current_user_id, meeting_id, meeting_data, db_ok, bus_fault) ==
    /\ LET given(f) == meeting_data[f] # NoTime
           start_aware == given("start_time") /\ meeting_data.start_time.aware
           end_aware == given("end_time") /\ meeting_data.end_time.aware
           old == meetings[meeting_id]
           new == [old EXCEPT
                     !.title = IF meeting_data.title # "" THEN meeting_data.title ELSE @,
                     !.start_time = IF given("start_time")
                                      THEN meeting_data.start_time.t ELSE @,
                     !.end_time = IF given("end_time")
                                    THEN meeting_data.end_time.t ELSE @]
           answer(code, effects) ==
               /\ last' = Response("update_meeting", current_user_id, meeting_id,
                                   meeting_data, db_ok, bus_fault, code, {})
               /\ trace' = effects
               /\ UNCHANGED meetingVars
       IN
       IF meeting_data = NoBody THEN answer(400, <<>>)
       ELSE IF meeting_id \notin DOMAIN meetings THEN answer(404, <<>>)
       ELSE IF ~is_owner(old, current_user_id) THEN answer(403, <<>>)
       ELSE IF compare_raises(end_aware, start_aware) THEN answer(500, <<Rollback>>)
       ELSE IF new.end_time <= new.start_time THEN answer(400, <<>>)
       ELSE IF ~db_ok THEN answer(500, <<Rollback>>)
       ELSE
          /\ meetings' = DictSet(meetings, meeting_id, new)
          /\ last' = Response("update_meeting", current_user_id, meeting_id,
                              meeting_data, db_ok, bus_fault, 200, {})
          /\ trace' = <<Commit("meetings")>>
                       \o publish_meeting_event("meeting_updated", meeting_id, bus_fault)
          /\ UNCHANGED <<participants, next_meeting_id>>
    /\ UNCHANGED chatVars

\* the participant rows of a meeting
ParticipantsOf(meeting_id) == {p \in participants : p.meeting_id = meeting_id}

\* DELETE /api/v1/meetings/<id>, lines 506-561.  A guest's request leaves the
\* participant rows, and participants.meeting_id references the meeting
\* (init_db.py), so the commit fails when there are any
delete_meeting(current_user_id, meeting_id, db_ok, bus_fault) ==
    /\ LET answer(code, effects) ==
               /\ last' = Response("delete_meeting", current_user_id, meeting_id,
                                   NoBody, db_ok, bus_fault, code, {})
               /\ trace' = effects
               /\ UNCHANGED meetingVars
           left == IF is_guest(current_user_id) THEN ParticipantsOf(meeting_id)
                   ELSE {}
       IN
       IF meeting_id \notin DOMAIN meetings THEN answer(404, <<>>)
       ELSE IF ~is_owner(meetings[meeting_id], current_user_id) THEN answer(403, <<>>)
       ELSE IF ~db_ok \/ left # {} THEN answer(500, <<Rollback>>)
       ELSE
          /\ meetings' = DictDel(meetings, meeting_id)
          /\ participants' = participants \ ParticipantsOf(meeting_id)
          /\ last' = Response("delete_meeting", current_user_id, meeting_id, NoBody,
                              db_ok, bus_fault, 200, {})
          /\ trace' = <<Commit("meetings")>>
                       \o publish_meeting_event("meeting_deleted", meeting_id, bus_fault)
          /\ UNCHANGED next_meeting_id
    /\ UNCHANGED chatVars

\* POST /api/v1/meetings/<id>/participants, lines 570-644, for a body that
\* passes ParticipantSchema
add_participant(current_user_id, meeting_id, user_id, db_ok, bus_fault) ==
    /\ LET answer(code, effects) ==
               /\ last' = Response("add_participant", current_user_id, meeting_id,
                                   NoBody, db_ok, bus_fault, code, {})
               /\ trace' = effects
               /\ UNCHANGED meetingVars
           row == [meeting_id |-> meeting_id, user_id |-> user_id]
       IN
       IF meeting_id \notin DOMAIN meetings THEN answer(404, <<>>)
       ELSE IF ~is_owner(meetings[meeting_id], current_user_id) THEN answer(403, <<>>)
       ELSE IF is_guest(current_user_id) THEN answer(403, <<>>)
       ELSE IF row \in participants THEN answer(409, <<>>)
       ELSE IF ~db_ok THEN answer(500, <<Rollback>>)
       ELSE
          /\ participants' = participants \cup {row}
          /\ last' = Response("add_participant", current_user_id, meeting_id, NoBody,
                              db_ok, bus_fault, 201, {})
          /\ trace' = <<Commit("participants")>>
                       \o publish_meeting_event("participant_added", meeting_id, bus_fault)
          /\ UNCHANGED <<meetings, next_meeting_id>>
    /\ UNCHANGED chatVars

\* the state when the service starts, with the id sequence of the table at
\* one of `ids`
InitWith(ids) ==
    /\ user_sid_map = [u \in {} |-> <<>>]
    /\ sid_user_map = [s \in {} |-> ""]
    /\ sessions = [s \in {} |-> ""]
    /\ rooms = [r \in Rooms |-> {}]
    /\ db = <<>>
    /\ next_id \in ids
    /\ redis = [k \in {} |-> <<>>]
    /\ clock = 0
    /\ subscriber = "listening"
    /\ fanout = NoFanout
    /\ meetings = [i \in {} |-> 0]
    /\ participants = {}
    /\ next_meeting_id = 1
    /\ last = [op |-> "start"]
    /\ trace = <<>>

Init == InitWith({1})

\* the rows of n messages that guest_a sent to room "42" before the start,
\* with ids from `first` on, one instant apart; tie: the two oldest were
\* committed at the same instant
Backlog(n, first, tie) ==
    [k \in 1..n |->
        new_message(first + k - 1, "42", "guest_a", "Ann", "hello",
                    IF tie /\ k = 2 THEN -n ELSE k - n - 1)]

\* the sorted set that holds the entries of the sequence es: each at the
\* rank of the entries that are less than it by (score, bytes)
Ranked(es) ==
    LET rank == [k \in DOMAIN es |->
                    Cardinality({j \in DOMAIN es : EntryLess(es[j], es[k])})]
    IN [i \in DOMAIN es |-> es[CHOOSE k \in DOMAIN es : rank[k] = i - 1]]

\* the cache after handle_chat_message mirrored the rows, all of them of
\* room "42" and of one sender: store_message_in_redis, lines 245-258,
\* left each set with its highest ranks
Mirrored(rows) ==
    LET es == [k \in DOMAIN rows |->
                  [member |-> [to_dict(rows[k]) EXCEPT !.authenticated = "false"],
                   score |-> ScoreOf(rows[k].timestamp)]]
        hk == HistoryKey("42")
        uk == UserKey("42", rows[1].guest_user_id)
    IN (hk :> ZRemRangeByRank(Ranked(es), 0, -(RoomCap + 1)))
       @@ (uk :> ZRemRangeByRank(Ranked(es), 0, -(UserCap + 1)))

\* the state of a service that has been running: the table and the cache
\* hold a backlog that fills the sender's set of the cache to its cap
InitFull ==
    \E n \in {UserCap}, first \in InitialNextIds, tie \in BOOLEAN :
        /\ user_sid_map = [u \in {} |-> <<>>]
        /\ sid_user_map = [s \in {} |-> ""]
        /\ sessions = [s \in {} |-> ""]
        /\ rooms = [r \in Rooms |-> {}]
        /\ db = Backlog(n, first, tie)
        /\ next_id = first + n
        /\ redis = Mirrored(Backlog(n, first, tie))
        /\ clock = 0
        /\ subscriber = "listening"
        /\ fanout = NoFanout
        /\ meetings = [i \in {} |-> 0]
        /\ participants = {}
        /\ next_meeting_id = 1
        /\ last = [op |-> "start"]
        /\ trace = <<>>

DataUserIds == {"", "guest_b"}
Contents == {"", "hello"}
Targets == {PyNone, PyStr("7"), PyInt("7"), PyStr("8")}

\* the registry, the rooms and the fan-out handlers
Next ==
    \/ \E sid \in SIDS, token \in Tokens : handle_connect(sid, token)
    \/ \E sid \in SIDS : handle_disconnect(sid)
    \/ \E sid \in SIDS, room \in {"42", ""} :
          handle_join_room(sid, room, "", "Ann", FALSE)
    \/ \E sid \in SIDS, room \in {"42", ""} :
          handle_leave_room(sid, room, "", "Ann")
    \/ \E sid \in SIDS, m \in {"42", ""}, target \in Targets, st \in {"", "deleted"} :
          handle_meeting_update(sid, m, target, st, NoPushFault)
    \/ \E sid \in SIDS, m \in {"42", ""}, target \in Targets :
          handle_meeting_invitation(sid, m, target, NoPushFault)
    \/ \E message \in BusMessages : handle_redis_message(message, NoPushFault)

Spec == Init /\ [][Next]_vars

ChatTokens == {"", "jwt_7", "jwt_guest_a"}

\* the chat: connections that join rooms and send messages
NextChat ==
    \/ \E sid \in ChatSIDS, token \in ChatTokens : handle_connect(sid, token)
    \/ \E sid \in ChatSIDS : handle_disconnect(sid)
    \/ \E sid \in ChatSIDS : handle_join_room(sid, "42", "", "Ann", FALSE)
    \/ \E sid \in ChatSIDS : handle_leave_room(sid, "42", "", "Ann")
    \/ \E sid \in ChatSIDS, room \in Rooms \cup {""}, content \in Contents,
          u \in DataUserIds, db_ok \in BOOLEAN :
          handle_chat_message(sid, room, content, u, "Ann", db_ok, 0, "none")

SpecChat == Init /\ [][NextChat]_vars

HistorySenders == {"", "guest_a", "guest_b"}

\* the history cache: one connection, authenticated or not, appends messages
\* to room "42" under several identities
NextHistory ==
    \/ \E token \in {"", "jwt_7"} : handle_connect("s1", token)
    \/ handle_disconnect("s1")
    \/ \E u \in HistorySenders, db_ok \in BOOLEAN, fault \in {0, 1} :
          handle_chat_message("s1", "42", "hello", u, "Ann", db_ok, fault, "none")
    \/ Tick

SpecHistory == InitWith(InitialNextIds) /\ [][NextHistory]_vars

CacheFaults == {0, 1, 2}

\* the cache under faults: connections join room "42" and send messages
\* while Redis may raise at a write of store_message_in_redis
NextCache ==
    \/ \E sid \in ChatSIDS, token \in {"", "jwt_guest_a"} : handle_connect(sid, token)
    \/ \E sid \in ChatSIDS : handle_disconnect(sid)
    \/ \E sid \in ChatSIDS : handle_join_room(sid, "42", "", "Ann", FALSE)
    \/ \E sid \in ChatSIDS, u \in {"", "guest_b"}, db_ok \in BOOLEAN,
          fault \in CacheFaults :
          handle_chat_message(sid, "42", "hello", u, "Ann", db_ok, fault, "none")

SpecCache == Init /\ [][NextCache]_vars

\* the register operation on its own: applied to any pair of connection and
\* credential, also to one that is registered already
NextRegister ==
    \/ \E sid \in SIDS, token \in ChatTokens : register(sid, token)
    \/ \E sid \in SIDS : handle_disconnect(sid)
    \/ \E sid \in SIDS, target \in {PyStr("7"), PyStr("guest_a")} :
          handle_meeting_invitation(sid, "42", target, NoPushFault)

SpecRegister == Init /\ [][NextRegister]_vars

\* the history endpoint: one unauthenticated connection sends messages as
\* two guests while the cache may fail to take them, and the history of room
\* "42" is requested
NextEndpoint ==
    \/ handle_connect("s1", "")
    \/ \E u \in GuestIds, fault \in {0, 1} :
          handle_chat_message("s1", "42", "hello", u, "Ann", TRUE, fault, "none")
    \/ Tick
    \/ \E m \in {"42", "lobby"}, limit \in 0..MaxLimit, per_user_limit \in 0..MaxLimit,
          jwt_ok \in BOOLEAN, ties_desc \in BOOLEAN :
          history_request(m, limit, per_user_limit, jwt_ok, FALSE, 0, ties_desc)

SpecEndpoint == Init /\ [][NextEndpoint]_vars

RaceSIDS == {"s1", "s2", "s3"}
RaceTokens == {"jwt_7", "jwt_guest_a"}
Invitations ==
    { BusMessage("message", TRUE, "participant_added", PyInt("42"), <<>>, i,
                 PyNone, PyNone) : i \in {PyInt("7"), PyStr("guest_a")} }

\* the bridge's loop over the connections of an invited identity, interleaved
\* with connects and disconnects.  The transport hands out a socket id once
\* while the loop runs
NextRace ==
    \/ \E sid \in RaceSIDS, token \in RaceTokens :
          /\ fanout.pc = "emitting" => sid \notin fanout.began
          /\ handle_connect(sid, token)
    \/ \E sid \in RaceSIDS : handle_disconnect(sid)
    \/ \E message \in Invitations : bridge_begin(message)
    \/ bridge_emit

SpecRace == Init /\ [][NextRace]_vars

\* get_jwt_identity(): a user id of auth.users (an int) or a guest id
Callers == {PyInt("1"), PyInt("2"), PyStr("guest_a")}
MeetingIds == 1..MaxMeetings
\* the times of request bodies: both with "Z", as the tests and a browser
\* write them; a start with "Z" and an end without
TimePairs ==
    { <<DateTime(0, TRUE), DateTime(1, TRUE)>>,
      <<DateTime(1, TRUE), DateTime(0, TRUE)>>,
      <<DateTime(1, TRUE), DateTime(1, TRUE)>>,
      <<DateTime(1, TRUE), DateTime(0, FALSE)>> }
UpdateBodies ==
    { NoBody,
      UpdateBody("b", NoTime, NoTime),
      UpdateBody("", DateTime(0, TRUE), DateTime(2, TRUE)),
      UpdateBody("", DateTime(1, TRUE), DateTime(1, TRUE)),
      UpdateBody("", NoTime, DateTime(0, TRUE)),
      UpdateBody("", NoTime, DateTime(0, FALSE)) }

\* the meeting service
NextMeetings ==
    \/ \E c \in Callers : get_meetings(c)
    \/ \E c \in Callers, m \in MeetingIds : get_meeting_detail(c, m)
    \/ \E c \in Callers, title \in {"", "a"}, t \in TimePairs, db_ok \in BOOLEAN,
          bus_fault \in {0, 1} :
          create_meeting(c, title, t[1], t[2], db_ok, bus_fault)
    \/ \E c \in Callers, m \in MeetingIds, body \in UpdateBodies, db_ok \in BOOLEAN,
          bus_fault \in {0, 1} :
          update_meeting(c, m, body, db_ok, bus_fault)
    \/ \E c \in Callers, m \in MeetingIds, db_ok \in BOOLEAN, bus_fault \in {0, 1} :
          delete_meeting(c, m, db_ok, bus_fault)
    \/ \E c \in Callers, m \in MeetingIds, db_ok \in BOOLEAN, bus_fault \in {0, 1} :
          add_participant(c, m, PyInt("2"), db_ok, bus_fault)

SpecMeetings == Init /\ [][NextMeetings]_vars

PublishCallers == {PyInt("2"), PyStr("guest_a")}
BusFaults == {0, 1, 2}

\* the mutations of the meeting service and their events, with the database
\* or the bus failing
NextPublish ==
    \/ \E c \in PublishCallers, t \in {1, 0}, db_ok \in BOOLEAN, bus_fault \in BusFaults :
          create_meeting(c, "a", DateTime(0, TRUE), DateTime(t, TRUE), db_ok, bus_fault)
    \/ \E c \in PublishCallers, m \in MeetingIds, db_ok \in BOOLEAN,
          body \in {UpdateBody("b", NoTime, NoTime),
                    UpdateBody("", DateTime(1, TRUE), DateTime(1, TRUE))},
          bus_fault \in BusFaults :
          update_meeting(c, m, body, db_ok, bus_fault)
    \/ \E c \in PublishCallers, m \in MeetingIds, db_ok \in BOOLEAN,
          bus_fault \in BusFaults :
          delete_meeting(c, m, db_ok, bus_fault)

SpecPublish == Init /\ [][NextPublish]_vars

PushFaults ==
    {NoPushFault} \cup {PushFault(at, raises) : at \in 1..2, raises \in BOOLEAN}
FanoutEvents ==
    { BusMessage("message", TRUE, "meeting_deleted", PyInt("42"),
                 <<PyStr("guest_a"), PyInt("7")>>, PyNone, PyNone, PyNone),
      BusMessage("message", TRUE, "participant_added", PyInt("42"), <<>>,
                 PyInt("7"), PyNone, PyNone) }

\* the fan-outs while a push may fail: send_to_user from the two client
\* handlers that use it, and the direct pushes of the bridge
NextPush ==
    \/ \E sid \in SIDS, token \in RaceTokens : handle_connect(sid, token)
    \/ \E sid \in SIDS : handle_disconnect(sid)
    \/ \E sid \in SIDS : handle_join_room(sid, "42", "", "Ann", FALSE)
    \/ \E sid \in SIDS, target \in {PyStr("7"), PyStr("8")}, f \in PushFaults :
          handle_meeting_update(sid, "42", target, "", f)
    \/ \E sid \in SIDS, target \in {PyStr("7"), PyStr("8")}, f \in PushFaults :
          handle_meeting_invitation(sid, "42", target, f)
    \/ \E message \in FanoutEvents, f \in PushFaults :
          handle_redis_message(message, f)

SpecPush == Init /\ [][NextPush]_vars

\* appends to a cache whose sets are at their caps: one unauthenticated
\* connection sends as two guests
NextTrim ==
    \/ handle_connect("s1", "")
    \/ handle_disconnect("s1")
    \/ \E u \in GuestIds, db_ok \in BOOLEAN, fault \in CacheFaults :
          handle_chat_message("s1", "42", "hello", u, "Ann", db_ok, fault, "none")
    \/ Tick

SpecTrim == InitFull /\ [][NextTrim]_vars

PayloadUserIds == {"", "guest_b", "8"}

\* identities: connections, registered or not, join, leave and send while
\* their payloads name no identity, a guest or a numeric identity
NextIdentity ==
    \/ \E sid \in ChatSIDS, token \in ChatTokens : handle_connect(sid, token)
    \/ \E sid \in ChatSIDS : handle_disconnect(sid)
    \/ \E sid \in ChatSIDS, u \in PayloadUserIds :
          handle_join_room(sid, "42", u, "Ann", FALSE)
    \/ \E sid \in ChatSIDS, u \in PayloadUserIds :
          handle_leave_room(sid, "42", u, "Ann")
    \/ \E sid \in ChatSIDS, u \in PayloadUserIds, db_ok \in BOOLEAN :
          handle_chat_message(sid, "42", "hello", u, "Ann", db_ok, 0, "none")

SpecIdentity == Init /\ [][NextIdentity]_vars

LossEvents ==
    { BusMessage("message", TRUE, "meeting_updated", PyInt("42"), <<>>,
                 PyNone, PyNone, PyNone),
      BusMessage("message", TRUE, "participant_added", PyInt("42"), <<>>,
                 PyInt("7"), PyNone, PyNone) }

\* the bridge loses its connection to the bus while connections come and
\* go, join room "42" and send messages, and events keep being published
NextLoss ==
    \/ \E sid \in ChatSIDS, token \in {"", "jwt_7"} : handle_connect(sid, token)
    \/ \E sid \in ChatSIDS : handle_disconnect(sid)
    \/ \E sid \in ChatSIDS : handle_join_room(sid, "42", "guest_b", "Ann", FALSE)
    \/ \E sid \in ChatSIDS :
          handle_chat_message(sid, "42", "hello", "guest_b", "Ann", TRUE, 0, "none")
    \/ \E message \in LossEvents : handle_redis_message(message, NoPushFault)
    \/ listen_raises
    \/ \E message \in LossEvents : publish_unheard(message)

SpecLoss == Init /\ [][NextLoss]_vars

\* transient failures of the cache: a connection sends messages to room
\* "42" and the history of the room is requested, while Redis may raise at
\* the write of a send, at the read of a request or at the writes of its
\* backfill
NextTransient ==
    \/ handle_connect("s1", "")
    \/ \E u \in GuestIds, fault \in {0, 1} :
          handle_chat_message("s1", "42", "hello", u, "Ann", TRUE, fault, "none")
    \/ \E limit \in 1..MaxLimit, per_user_limit \in {0, 1},
          down \in BOOLEAN, fault \in {0, 1} :
          history_request("42", limit, per_user_limit, TRUE, down, fault, FALSE)

SpecTransient == Init /\ [][NextTransient]_vars

LateFailures == {"none", "refresh", "emit"}

\* failures after the commit: connections join room "42" and send
\* messages while the database may refuse the insert and a statement after
\* the commit may raise
NextLate ==
    \/ \E sid \in ChatSIDS : handle_connect(sid, "")
    \/ \E sid \in ChatSIDS : handle_join_room(sid, "42", "guest_a", "Ann", FALSE)
    \/ \E sid \in ChatSIDS, content \in Contents, db_ok \in BOOLEAN,
          late \in LateFailures :
          handle_chat_message(sid, "42", content, "guest_a", "Ann", db_ok, 0, late)

SpecLate == Init /\ [][NextLate]_vars

----------------------------------------------------------------------------
(* What the transport knows, independently of the registry: a connection is *)
(* registered when it is open and connected with a credential that carries  *)
(* an identity.                                                             *)

Open == DOMAIN sessions
IdentityOf(c) == IF c \in Open THEN connect_user_id(sessions[c]) ELSE ""
Registered(c) == IdentityOf(c) # ""
ConnectionsOf(u) == {c \in SIDS : Registered(c) /\ IdentityOf(c) = u}
Identities == {connect_user_id(t) : t \in Tokens \cup DOMAIN SecondaryClaims} \ {""}

\* the connections the emits of the trace with this event reach
Reached(event) ==
    UNION {Receivers(trace[i], Open, rooms) : i \in {j \in Emits : trace[j].event = event}}

\* the emits of the trace, as delivered, that carry status "deleted"
DeletedNotice(i) ==
    /\ trace[i].op = "emit"
    /\ trace[i].event = "meeting_update"
    /\ "status" \in DOMAIN trace[i].data
    /\ trace[i].data.status = "deleted"

----------------------------------------------------------------------------
(* Claims *)

\* C1: the two registry maps are symmetric in every reachable state:
\* sid_user_map maps connection c to identity u iff c is in user_sid_map[u].
C1_RegistrySymmetric ==
    \A c \in SIDS, u \in Identities \cup {sid_user_map[x] : x \in DOMAIN sid_user_map}
                                     \cup DOMAIN user_sid_map :
        (c \in DOMAIN sid_user_map /\ sid_user_map[c] = u)
        <=> (u \in DOMAIN user_sid_map /\ c \in Range(user_sid_map[u]))

\* a disconnect of one of two connections of an identity has just been handled
C1_Witness ==
    /\ last.op = "disconnect"
    /\ last.user_id # ""
    /\ last.user_id \in DOMAIN user_sid_map

\* C2: resolve(c) is defined exactly when c is registered, and send_to_user(u)
\* pushes to exactly the connections registered for u, after every sequence
\* of connects and disconnects.
C2_ResolveAndSendExact ==
    /\ \A c \in SIDS :
          /\ (c \in DOMAIN sid_user_map) <=> Registered(c)
          /\ Registered(c) => session_user(c) = IdentityOf(c)
    /\ \A u \in Identities \cup {"9"} :
          LET sent == send_to_user(PyStr(u), "meeting_update", EmptyDict) IN
          /\ {sent.emits[i].to : i \in DOMAIN sent.emits} = ConnectionsOf(u)
          /\ \A i \in DOMAIN sent.emits : sent.emits[i].kind = "sid"
          /\ sent.ret <=> (ConnectionsOf(u) # {})
    /\ (/\ last.op \in {"meeting_update", "meeting_invitation"}
        /\ Registered(last.sid)
        /\ last.meeting_id # ""
        /\ last.target[1] = "str"
        /\ ConnectionsOf(last.target[2]) # {})
       => /\ Reached(last.op) = ConnectionsOf(last.target[2])
          /\ \A i \in DOMAIN trace : trace[i].kind = "sid"

\* an update has been sent to an identity that has two connections
C2_Witness ==
    /\ last.op = "meeting_update"
    /\ Registered(last.sid)
    /\ last.target[1] = "str"
    /\ Cardinality(ConnectionsOf(last.target[2])) = 2
    /\ Len(trace) = 2

\* the bus message handled last is a well-formed meeting_deleted event
DeletedHandled ==
    /\ last.op = "bus"
    /\ last.message.type = "message"
    /\ last.message.decodable
    /\ last.message.event_type = "meeting_deleted"
    /\ truthy(last.message.meeting_id)

ListedParticipants ==
    IF last.message.participant_ids = NoList THEN {}
    ELSE {str(last.message.participant_ids[i]) :
             i \in DOMAIN last.message.participant_ids}

\* C5: when the bridge processes meeting_deleted, every connection joined to
\* the meeting's room and every registered connection of every listed
\* participant receives a meeting_update with status "deleted".
C5_DeletedReachesRoomAndParticipants ==
    DeletedHandled =>
        \A c \in rooms[str(last.message.meeting_id)]
                 \cup UNION {ConnectionsOf(u) : u \in ListedParticipants} :
            \E i \in DOMAIN trace :
                DeletedNotice(i) /\ c \in Receivers(trace[i], Open, rooms)

\* the room has a member, and a listed participant has a connection that is
\* not joined to the room
C5_Witness ==
    /\ DeletedHandled
    /\ rooms[str(last.message.meeting_id)] # {}
    /\ \E u \in ListedParticipants :
          \E c \in ConnectionsOf(u) : c \notin rooms[str(last.message.meeting_id)]

\* the request handled last is a client's meeting_update or meeting_invitation
\* on a connection without registry identity
UnauthenticatedNotify ==
    /\ last.op \in {"meeting_update", "meeting_invitation"}
    /\ ~Registered(last.sid)

ErrorEventOf(op) ==
    IF op = "meeting_update" THEN "update_error" ELSE "invitation_error"

\* C6: a meeting_update or meeting_invitation from a connection without
\* registry identity delivers the scoped error to that connection only and
\* delivers no meeting_update or meeting_invitation to anybody.
C6_UnauthenticatedGetsScopedError ==
    UnauthenticatedNotify =>
        /\ Len(trace) = 1
        /\ trace[1].op = "emit"
        /\ trace[1].event = ErrorEventOf(last.op)
        /\ Receivers(trace[1], Open, rooms) = {last.sid}
        /\ Reached("meeting_update") = {}
        /\ Reached("meeting_invitation") = {}

\* the unauthenticated update names a room that has members and a target that
\* is connected
C6_Witness ==
    /\ UnauthenticatedNotify
    /\ last.op = "meeting_update"
    /\ last.meeting_id = "42"
    /\ rooms["42"] \ {last.sid} # {}
    /\ last.target[1] = "str"
    /\ ConnectionsOf(last.target[2]) # {}

\* the identity the sender of the request handled last acts under, from what
\* the transport knows
SenderIdentity ==
    IF Registered(last.sid) THEN IdentityOf(last.sid)
    ELSE IF last.data_user_id # "" THEN last.data_user_id
    ELSE "temp_user_" \o last.sid

\* the request handled last is a message with a room and a content
MessageRequest ==
    /\ last.op = "chat_message"
    /\ last.room # ""
    /\ last.content # ""

\* ... and the durable write of it was accepted
WriteAccepted ==
    /\ MessageRequest
    /\ last.room \in NumericStrings
    /\ startswith_guest(SenderIdentity) \/ SenderIdentity \in NumericStrings
    /\ last.db_ok

\* C7: when a guest sends content x to a room (and the message is stored),
\* every connection joined to the room receives a chat_message with content x
\* and user_id equal to the guest's id string, not the placeholder 1.
C7_GuestMessageReachesRoom ==
    (WriteAccepted /\ startswith_guest(SenderIdentity)) =>
        \A c \in rooms[last.room] :
            \E i \in Emits :
                /\ trace[i].event = "chat_message"
                /\ c \in Receivers(trace[i], Open, rooms)
                /\ trace[i].data.content = last.content
                /\ trace[i].data.user_id = PyStr(SenderIdentity)

\* a guest has sent a message to a room that it and a second connection joined
C7_Witness ==
    /\ WriteAccepted
    /\ startswith_guest(SenderIdentity)
    /\ last.sid \in rooms[last.room]
    /\ Cardinality(rooms[last.room]) = 2

\* C9: every chat_message delivered carries a message that was committed to
\* the durable store before the broadcast was issued.
C9_BroadcastAfterCommit ==
    \A i \in Emits :
        trace[i].event = "chat_message" =>
            /\ \E j \in 1..(i - 1) :
                  trace[j].op = "db_commit" /\ trace[j].id = trace[i].data.id
            /\ \E k \in DOMAIN db :
                  /\ db[k].id = trace[i].data.id
                  /\ db[k].content = trace[i].data.content

\* a chat_message has been delivered to a connection
C9_Witness ==
    /\ last.op = "chat_message"
    /\ Reached("chat_message") # {}

\* the durable write of the message request handled last failed
WriteFailed(l) ==
    /\ l.op = "chat_message"
    /\ l.room # ""
    /\ l.content # ""
    /\ \/ ~l.db_ok
       \/ l.room \notin NumericStrings
       \/ ~startswith_guest(l.active) /\ l.active \notin NumericStrings

\* C10: when the durable write of a chat message fails, the write is rolled
\* back, the sender alone receives message_error, nothing is stored in the
\* cache and no chat_message is broadcast.
C10_FailedWriteIsScoped ==
    [][ WriteFailed(last') =>
          /\ db' = db
          /\ redis' = redis
          /\ \E i \in DOMAIN trace' : trace'[i].op = "db_rollback"
          /\ \A i \in DOMAIN trace' :
                trace'[i].op = "emit" =>
                    /\ trace'[i].event = "message_error"
                    /\ Receivers(trace'[i], DOMAIN sessions', rooms') = {last'.sid}
          /\ \E i \in DOMAIN trace' :
                trace'[i].op = "emit" /\ trace'[i].event = "message_error"
      ]_vars

\* the database refused a message sent to a room with two members
C10_Witness ==
    /\ WriteFailed(last)
    /\ ~last.db_ok
    /\ last.room = "42"
    /\ Cardinality(rooms["42"]) = 2
    /\ db # <<>>

\* the limited view of room "42" as the code computes it from the cache
View(G, P) == get_chat_history_with_user_limit(redis, "42", G, P, FALSE)

CountFrom(l, u) == Cardinality({i \in DOMAIN l : l[i].user_id = u})

\* C3: for every cache content, every global cap G >= 0 and per-sender cap
\* P >= 1, the limited view holds at most G messages and at most P messages
\* of any one sender.
C3_ViewWithinCaps ==
    \A G \in 0..MaxLimit, P \in 1..MaxLimit :
        /\ Len(View(G, P)) <= G
        /\ \A i \in DOMAIN View(G, P) : CountFrom(View(G, P), View(G, P)[i].user_id) <= P

\* the message request handled last was stored and mirrored into the cache
Appended ==
    /\ last.op = "chat_message"
    /\ last.outcome = "sent"
    /\ last.fault = 0

\* C4: after an append, recent(room, N) with per-sender limit 0 ends with the
\* message just appended, for every N >= 1.
C4_AppendedIsLast ==
    Appended =>
        \A N \in 1..MaxLimit :
            LET recent == get_chat_history(redis, last.room, N, FALSE) IN
            /\ recent # <<>>
            /\ recent[Len(recent)].id = last.id

\* The reference result of C8, from the claim's words: the cached candidates
\* of the room, each sender's P most recent, merged, in ascending order of
\* timestamp, the G most recent of them.  Recency is the instant of the
\* message, and at equal instants the id (the order of insertion).
Candidates == Range(ZRange(ZGet(redis, HistoryKey("42")), -ViewWindow, -1))

Newer(m1, m2) ==
    \/ m1.timestamp > m2.timestamp
    \/ m1.timestamp = m2.timestamp /\ m1.id > m2.id

KeptPerSender(P) ==
    {m \in Candidates :
        Cardinality({n \in Candidates : n.user_id = m.user_id /\ Newer(n, m)}) < P}

KeptOverall(G, P) ==
    {m \in KeptPerSender(P) :
        Cardinality({n \in KeptPerSender(P) : Newer(n, m)}) < G}

\* C8: for P >= 1 the limited view is the reference result: the same
\* messages, in ascending order of timestamp.
C8_ViewIsReference ==
    \A G \in 0..MaxLimit, P \in 1..MaxLimit :
        /\ Range(View(G, P)) = KeptOverall(G, P)
        /\ Len(View(G, P)) = Cardinality(KeptOverall(G, P))
        /\ \A i, j \in DOMAIN View(G, P) :
              i < j => View(G, P)[i].timestamp <= View(G, P)[j].timestamp

\* the cache raised while the message accepted last was mirrored into it
MirrorFailed(l) ==
    /\ l.op = "chat_message"
    /\ l.room \in NumericStrings
    /\ l.content # ""
    /\ startswith_guest(l.active) \/ l.active \in NumericStrings
    /\ l.db_ok
    /\ l.fault # 0

\* C11: when mirroring a message into the cache fails, the durable write of
\* the message stays committed, the message is still broadcast to the room
\* as chat_message, and the sender receives no message_error.
C11_CacheFailureIsSilent ==
    [][ MirrorFailed(last') =>
          /\ Len(db') = Len(db) + 1
          /\ db'[Len(db')].content = last'.content
          /\ \A i \in DOMAIN trace' : trace'[i].op # "db_rollback"
          /\ \A c \in rooms'[last'.room] :
                \E i \in DOMAIN trace' :
                    /\ trace'[i].op = "emit"
                    /\ trace'[i].event = "chat_message"
                    /\ trace'[i].data.id = db'[Len(db')].id
                    /\ c \in Receivers(trace'[i], DOMAIN sessions', rooms')
          /\ \A i \in DOMAIN trace' :
                (trace'[i].op = "emit" /\ trace'[i].event = "message_error")
                    => last'.sid \notin Receivers(trace'[i], DOMAIN sessions', rooms')
      ]_vars

\* the cache raised at its first write for a message sent to a room with
\* two members, and nothing of the message is in the cache
C11_Witness ==
    /\ MirrorFailed(last)
    /\ last.fault = 1
    /\ Cardinality(rooms["42"]) = 2
    /\ last.sid \in rooms["42"]
    /\ \A k \in DOMAIN redis : \A i \in DOMAIN redis[k] : redis[k][i].member.id # last.id

\* a message of the channel that cannot be processed: its payload does not
\* decode, or it is a meeting_deleted event whose participant_ids is null
Unprocessable(m) ==
    /\ m.type = "message"
    /\ \/ ~m.decodable
       \/ /\ m.event_type = "meeting_deleted"
          /\ truthy(m.meeting_id)
          /\ m.participant_ids = NoList

\* a well-formed event that names a meeting and notifies the meeting's room
RoomEvent(m) ==
    /\ m.type = "message"
    /\ m.decodable
    /\ truthy(m.meeting_id)
    /\ m.event_type \in {"meeting_updated", "meeting_deleted"}
    /\ m.participant_ids # NoList

\* C12: after the bridge receives a malformed or unprocessable bus message
\* the subscription loop keeps running, and a well-formed event received
\* next is still dispatched (its notification goes to the meeting's room).
C12_LoopSurvivesBadInput ==
    [][ /\ (last'.op = "bus" /\ Unprocessable(last'.message))
              => subscriber' = "listening"
        /\ (/\ last.op = "bus" /\ Unprocessable(last.message)
            /\ last'.op = "bus" /\ RoomEvent(last'.message))
              => \E i \in DOMAIN trace' :
                    /\ trace'[i].op = "emit"
                    /\ trace'[i].event = "meeting_update"
                    /\ rooms'[str(last'.message.meeting_id)]
                          \subseteq Receivers(trace'[i], DOMAIN sessions', rooms')
      ]_vars

\* a meeting_deleted event with participant_ids null has been received when
\* the room had a member: the room was notified before the loop over the
\* participants raised, and the thread is still listening
C12_Witness ==
    /\ last.op = "bus"
    /\ Unprocessable(last.message)
    /\ last.message.decodable
    /\ rooms["42"] # {}
    /\ Len(trace) = 1
    /\ subscriber = "listening"

\* the number of times connection c occurs in the list of identity u
Occurrences(m, u, c) ==
    IF u \in DOMAIN m THEN Cardinality({i \in DOMAIN m[u] : m[u][i] = c}) ELSE 0

\* C13: after the disconnect handler of connection c completes, c occurs in
\* no entry of the registry: sid_user_map has no key c and no list of
\* user_sid_map contains c, whatever connects preceded it.
C13_DisconnectPurges ==
    last.op = "disconnect" =>
        /\ last.sid \notin DOMAIN sid_user_map
        /\ \A u \in DOMAIN user_sid_map : Occurrences(user_sid_map, u, last.sid) = 0

\* a registered connection has disconnected while another connection of the
\* same identity stays registered
C13_Witness ==
    /\ last.op = "disconnect"
    /\ last.user_id # ""
    /\ \E c \in SIDS \ {last.sid} :
          /\ Registered(c)
          /\ IdentityOf(c) = last.user_id
          /\ user_sid_map[last.user_id] = <<c>>

SameRequestTwice(l1, l2) ==
    /\ l1.op = "history" /\ l2.op = "history"
    /\ l1.code = 200 /\ l2.code = 200
    /\ l1.meeting_id = l2.meeting_id
    /\ l1.limit = l2.limit
    /\ l1.per_user_limit = l2.per_user_limit

\* C15: two successive calls of the history endpoint for the same room with
\* the same limit and per_user_limit, with no message appended in between,
\* return the same message sequence, also when the first call was served
\* from the durable fallback and backfilled the cache.
C15_HistoryRepeatable ==
    [][ SameRequestTwice(last, last') => last'.messages = last.messages ]_vars

\* the bridge's loop over the connections of an identity has just ended
FanoutEnded ==
    /\ fanout.pc = "done"
    /\ fanout.key # ""
    /\ last.op = "bus"

\* the connections of the identity that were registered when the loop began
\* and still are
StayedRegistered ==
    {c \in fanout.began : Registered(c) /\ IdentityOf(c) = fanout.key}

\* C16: when a fan-out over an identity's connections interleaves with a
\* connect or disconnect of another connection of the same identity, every
\* connection of the identity that stays registered for the whole fan-out
\* receives the push exactly once.
C16_FanoutExactlyOnce ==
    FanoutEnded =>
        \A c \in StayedRegistered :
            Cardinality({i \in DOMAIN trace :
                            c \in Receivers(trace[i], Open, rooms)}) = 1

\* the identity a meeting belongs to, as Meeting.to_dict reports it: the
\* guest identity when the meeting has one, else the user id
OwnerOf(meeting) ==
    IF meeting.guest_owner_id # PyNone THEN meeting.guest_owner_id
    ELSE meeting.owner_id

\* the request just answered is an update or a delete of a stored meeting by
\* an identity other than the one the meeting belongs to
ForeignWrite(l) ==
    /\ l.op \in {"update_meeting", "delete_meeting"}
    /\ l.meeting_id \in DOMAIN meetings
    /\ OwnerOf(meetings[l.meeting_id]) # l.caller

\* C17: an update or delete request by an identity that does not own the
\* meeting is rejected with 403 and leaves the meeting stored and unchanged;
\* in particular a regular (numeric) user cannot update or delete a meeting
\* owned by a guest identity.
C17_ForeignWriteRejected ==
    [][ ForeignWrite(last') => /\ last'.code = 403
                               /\ meetings' = meetings ]_vars

\* the meetings that belong to an identity
OwnedBy(current_user_id) ==
    {i \in DOMAIN meetings : OwnerOf(meetings[i]) = current_user_id}

\* the request just answered asked for the detail of a stored meeting that
\* the caller neither owns nor participates in
ForeignRead(l) ==
    /\ l.op = "get_meeting_detail"
    /\ l.meeting_id \in DOMAIN meetings
    /\ OwnerOf(meetings[l.meeting_id]) # l.caller
    /\ [meeting_id |-> l.meeting_id, user_id |-> l.caller] \notin participants

\* C18: an identity can read only its own meetings: listing meetings
\* returns exactly the meetings owned by the caller (a regular user's list
\* contains no guest-owned meeting), and viewing the detail of a meeting the
\* caller neither owns nor participates in is rejected with 403.
C18_ReadsOnlyOwn ==
    /\ last.op = "get_meetings" => last.body = OwnedBy(last.caller)
    /\ ForeignRead(last) => last.code = 403

\* the answered request was a create, an update or a delete of a meeting
Mutation(l) == l.op \in {"create_meeting", "update_meeting", "delete_meeting"}

\* the event type published for an operation
EventOf(op) ==
    IF op = "create_meeting" THEN "meeting_created"
    ELSE IF op = "update_meeting" THEN "meeting_updated"
    ELSE "meeting_deleted"

\* the positions of the trace at which an event was published on the
\* channel all subscribers of the domain listen on
Published == {i \in DOMAIN trace : /\ trace[i].op = "publish"
                                    /\ trace[i].channel = "meeting_events"}

\* C19: every successful create, update or delete of a meeting publishes
\* exactly one domain event for that mutation, and publishes it only after
\* the write is committed; a request that is rejected or whose write fails
\* publishes no event.
C19_OneEventPerMutation ==
    Mutation(last) =>
        IF last.code \in {200, 201}
           THEN /\ Cardinality(Published) = 1
                /\ \A i \in Published :
                      /\ trace[i].event_type = EventOf(last.op)
                      /\ trace[i].meeting_id = last.meeting_id
                      /\ \E j \in 1..(i - 1) : trace[j].op = "db_commit"
           ELSE \A i \in DOMAIN trace : trace[i].op # "publish"

\* the instants a request asks the meeting to run between: those of its
\* body, and for an update the stored ones where the body has none
AskedStart(l) ==
    IF l.request.start_time # NoTime THEN l.request.start_time.t
    ELSE meetings[l.meeting_id].start_time

AskedEnd(l) ==
    IF l.request.end_time # NoTime THEN l.request.end_time.t
    ELSE meetings[l.meeting_id].end_time

\* the request just answered was a create with a title, or an update of a
\* stored meeting by its owner, whose resulting end is not after its start
EndsBeforeStart(l) ==
    \/ /\ l.op = "create_meeting"
       /\ l.request.title # ""
       /\ l.request.end_time.t <= l.request.start_time.t
    \/ /\ l.op = "update_meeting"
       /\ l.request # NoBody
       /\ l.meeting_id \in DOMAIN meetings
       /\ OwnerOf(meetings[l.meeting_id]) = l.caller
       /\ AskedEnd(l) <= AskedStart(l)

\* C20: after any sequence of create and update requests, every stored
\* meeting has end_time strictly after start_time: a create or update whose
\* resulting end_time is not after start_time is answered with 400 and
\* changes nothing in the store.
C20_EndAfterStart ==
    [][ /\ \A i \in DOMAIN meetings' :
              meetings'[i].end_time > meetings'[i].start_time
        /\ EndsBeforeStart(last') => /\ last'.code = 400
                                     /\ meetingVars' = meetingVars ]_vars

\* C21: in every reachable state no identity in user_sid_map has an empty
\* connection list: the disconnect that removes an identity's last
\* connection also deletes the identity's entry.
C21_NoEmptyEntry ==
    /\ \A u \in DOMAIN user_sid_map : user_sid_map[u] # <<>>
    /\ (last.op = "disconnect" /\ last.user_id # "" /\ ConnectionsOf(last.user_id) = {})
          => last.user_id \notin DOMAIN user_sid_map

\* the only connection of an identity has disconnected while a connection of
\* another identity stays registered
C21_Witness ==
    /\ last.op = "disconnect"
    /\ last.user_id # ""
    /\ ConnectionsOf(last.user_id) = {}
    /\ DOMAIN user_sid_map # {}

\* the pushes the fan-out handled last is made of, one per target, in the
\* order the code makes them: those of send_to_user for a client's
\* meeting_update or meeting_invitation that names a connected identity,
\* those of the bridge for meeting_deleted and participant_added
FanoutPushes ==
    IF last.op \in {"meeting_update", "meeting_invitation"}
       THEN IF /\ Registered(last.sid)
               /\ last.meeting_id # ""
               /\ InRegistry(last.target)
              THEN send_to_user(last.target, last.op, EmptyDict).emits
              ELSE <<>>
    ELSE IF /\ last.op = "bus"
            /\ last.message.type = "message"
            /\ last.message.decodable
            /\ truthy(last.message.meeting_id)
            /\ last.message.event_type \in {"meeting_deleted", "participant_added"}
            /\ last.message.participant_ids # NoList
       THEN Dispatch(last.message)
    ELSE <<>>

\* the push to one connection of the fan-out handled last failed
PushFailed ==
    /\ last.op \in {"meeting_update", "meeting_invitation", "bus"}
    /\ last.emit_fault.at \in DOMAIN FanoutPushes
    /\ FanoutPushes[last.emit_fault.at].kind = "sid"

\* C22: pushes of one fan-out are independent: when the push to one
\* connection of a fan-out fails (send_to_user, or the bridge's direct pushes
\* for meeting_deleted and participant_added), the pushes to the remaining
\* target connections of that fan-out are still performed.
C22_PushesIndependent ==
    PushFailed =>
        \A i \in DOMAIN FanoutPushes \ {last.emit_fault.at} :
            FanoutPushes[i].kind = "sid" =>
            \E j \in Emits :
                /\ trace[j].event = FanoutPushes[i].event
                /\ trace[j].kind = FanoutPushes[i].kind
                /\ trace[j].to = FanoutPushes[i].to

----------------------------------------------------------------------------
(* C23 *)

MembersOf(z) == {z[i].member : i \in DOMAIN z}

\* the member that the step's append wrote: the dict of the row it committed
AppendedMember == [to_dict(db'[Len(db')]) EXCEPT !.authenticated = authenticated(last'.sid)]

\* the set at key holds, after the step, the cap most recent of the entries
\* it held plus the appended one, and no dropped entry is newer than a kept one
KeepsMostRecent(key, cap) ==
    LET before == MembersOf(ZGet(redis, key))
        after == MembersOf(ZGet(redis', key))
        all == before \cup {AppendedMember}
    IN /\ after \subseteq all
       /\ Cardinality(after) = IF Cardinality(all) > cap THEN cap ELSE Cardinality(all)
       /\ \A m \in all \ after : \A k \in after : ~Newer(m, k)

\* C23: after every append the room-wide set holds exactly the (at most 500)
\* most recent entries of the room and the sender's set the (at most 100) most
\* recent entries of the sender; a trim never removes a newer entry while an
\* older one is kept
C23_TrimKeepsNewest ==
    [][(last'.op = "chat_message" /\ last'.outcome = "sent" /\ last'.fault = 0)
        => /\ KeepsMostRecent(HistoryKey(last'.room), RoomCap)
           /\ KeepsMostRecent(UserKey(last'.room, AppendedMember.user_id), UserCap)]_vars

----------------------------------------------------------------------------
(* C24 *)

\* the messages of l are in ascending order of timestamp, and messages of
\* one timestamp in the order of their ids
InHistoryOrder(l) == \A i, j \in DOMAIN l : i < j => Newer(l[j], l[i])

\* C24: every history sequence returned, by the plain recent view and by the
\* diversity-limited view, is ordered by timestamp ascending, and messages
\* with equal timestamps appear in insertion/id order
C24_HistoryOrdered ==
    /\ \A N \in 1..MaxLimit :
          InHistoryOrder(get_chat_history(redis, "42", N, FALSE))
    /\ \A G \in 0..MaxLimit, P \in 1..MaxLimit :
          InHistoryOrder(get_chat_history_with_user_limit(redis, "42", G, P, FALSE))

----------------------------------------------------------------------------
(* C25 *)

\* the durable messages of the room, as the endpoint serialises them
DurableOf(room) ==
    {to_dict(db[i]) : i \in {k \in DOMAIN db : db[k].meeting_id = PyInt(room)}}

\* the request found the cache of its room empty while the table holds
\* messages of the room, and answered
FellBack ==
    /\ last'.op = "history"
    /\ last'.code = 200
    /\ ~int_raises(last'.meeting_id)
    /\ ZGet(redis, HistoryKey(last'.meeting_id)) = <<>>
    /\ DurableOf(last'.meeting_id) # {}

\* C25: a history query that finds the room's cache empty while the durable
\* store holds messages of the room returns the most recent `limit` durable
\* messages of the room in ascending timestamp order, and afterwards the
\* cache of the room contains exactly the messages it returned
C25_FallbackIsRecent ==
    [][FellBack =>
        LET returned == last'.messages
            durable == DurableOf(last'.meeting_id)
        IN /\ Range(returned) \subseteq durable
           /\ Len(returned) = IF Cardinality(durable) > last'.limit
                                 THEN last'.limit ELSE Cardinality(durable)
           /\ \A i, j \in DOMAIN returned :
                 i < j => returned[i].timestamp <= returned[j].timestamp
           /\ \A m \in durable \ Range(returned) : \A k \in Range(returned) :
                 m.timestamp <= k.timestamp
           /\ MembersOf(ZGet(redis', HistoryKey(last'.meeting_id))) = Range(returned)]_vars

----------------------------------------------------------------------------
(* C26 *)

\* the connections joined to the room of the meeting the event names
RoomOfEvent ==
    IF str(last.message.meeting_id) \in DOMAIN rooms
        THEN rooms[str(last.message.meeting_id)] ELSE {}

\* the notices of the deletion that connection c receives
DeletedNoticesOf(c) ==
    {i \in DOMAIN trace : DeletedNotice(i) /\ c \in Receivers(trace[i], Open, rooms)}

\* C26: for a single meeting_deleted event the direct push goes only to
\* listed participants that are not currently in the meeting's room, so no
\* connection receives more than one meeting_update for that event
C26_DeletedNoticeOnce ==
    DeletedHandled =>
        /\ \A i \in DOMAIN trace :
              (DeletedNotice(i) /\ trace[i].kind = "sid")
                  => trace[i].to \notin RoomOfEvent
        /\ \A c \in SIDS : Cardinality(DeletedNoticesOf(c)) <= 1

----------------------------------------------------------------------------
(* C27 *)

\* the bus message handled last is a well-formed participant_added event
InvitationHandled ==
    /\ last.op = "bus"
    /\ last.message.type = "message"
    /\ last.message.decodable
    /\ last.message.event_type = "participant_added"
    /\ truthy(last.message.meeting_id)

Invited == ConnectionsOf(str(last.message.invited_user_id))

\* C27: a participant_added event produces meeting_invitation notifications
\* only on connections currently registered to the invited identity; when
\* the invited identity has no registered connection, no connection
\* receives anything for that event
C27_InvitationOnlyToInvited ==
    InvitationHandled =>
        /\ \A i \in Emits :
              /\ trace[i].event = "meeting_invitation"
              /\ Receivers(trace[i], Open, rooms) \subseteq Invited
        /\ Invited = {} =>
              \A c \in SIDS : \A i \in Emits : c \notin Receivers(trace[i], Open, rooms)

\* an invitation of identity 7 has been pushed while a connection of another
\* identity sits in the room of the meeting
C27_Witness ==
    /\ InvitationHandled
    /\ Invited # {}
    /\ Emits # {}
    /\ RoomOfEvent \ Invited # {}

----------------------------------------------------------------------------
(* C28 *)

\* the event types the bridge has a notifying branch for
NotifyingTypes ==
    {"meeting_updated", "meeting_deleted", "participant_added",
     "participant_status_updated"}

\* a decoded event that names no meeting, announces a created meeting, or is
\* of a type the bridge does not know
DroppedEvent(message) ==
    /\ message.type = "message"
    /\ message.decodable
    /\ \/ ~truthy(message.meeting_id)
       \/ message.event_type = "meeting_created"
       \/ message.event_type \notin NotifyingTypes

\* C28: a bus event that lacks a room-identifying meeting_id, a
\* meeting_created event, and an event of unrecognized type each produce no
\* outbound notification to any connection and leave the registry unchanged,
\* whatever other fields the payload carries
C28_DroppedEventsAreSilent ==
    [][(last'.op = "bus" /\ DroppedEvent(last'.message))
        => /\ trace' = <<>>
           /\ user_sid_map' = user_sid_map
           /\ sid_user_map' = sid_user_map]_vars

\* a meeting_deleted event without meeting_id that lists a connected
\* participant has been handled while a connection sits in room "42"
C28_Witness ==
    /\ last.op = "bus"
    /\ DroppedEvent(last.message)
    /\ last.message.event_type = "meeting_deleted"
    /\ \E u \in ListedParticipants : ConnectionsOf(u) # {}
    /\ rooms["42"] # {}

----------------------------------------------------------------------------
(* C29 *)

\* the identity the map of connections holds for c, "" when it holds none
RegistrationOf(map, c) == IF c \in DOMAIN map THEN map[c] ELSE ""

\* C29: a connect with an absent or invalid credential is accepted, leaves
\* the registry unchanged and surfaces no error; a connect with a valid
\* credential registers the connection under the credential's identity.
\* Whether a connection is registered is decided at connect, and no later
\* handler other than disconnect changes it
C29_RegisteredAtConnect ==
    [][/\ last'.op = "connect" =>
             /\ last'.sid \in DOMAIN sessions'
             /\ trace' = <<>>
             /\ connect_user_id(last'.token) = "" =>
                   /\ user_sid_map' = user_sid_map
                   /\ sid_user_map' = sid_user_map
             /\ connect_user_id(last'.token) # "" =>
                   /\ RegistrationOf(sid_user_map', last'.sid) = connect_user_id(last'.token)
                   /\ last'.sid \in Range(user_sid_map'[connect_user_id(last'.token)])
       /\ \A c \in SIDS :
             (last'.op \notin {"connect", "disconnect"} \/ last'.sid # c)
                 => RegistrationOf(sid_user_map', c) = RegistrationOf(sid_user_map, c)]_vars

\* a connection has connected with a credential no decoder accepts while
\* another connection is registered
C29_Witness ==
    /\ last.op = "connect"
    /\ last.token = "bad"
    /\ last.sid \in DOMAIN sessions
    /\ last.sid \notin DOMAIN sid_user_map
    /\ DOMAIN sid_user_map # {}

----------------------------------------------------------------------------
(* C30 *)

\* the handlers whose notifications name their sender
SenderHandlers == {"join_room", "leave_room", "chat_message"}

\* the sender identities carried by the user_joined, user_left and
\* chat_message notifications of one handler run
SenderIds(tr) ==
    {IF tr[i].event = "chat_message" THEN str(tr[i].data.user_id)
                                     ELSE tr[i].data.user_id :
        i \in {k \in DOMAIN tr :
                 /\ tr[k].op = "emit"
                 /\ tr[k].event \in {"user_joined", "user_left", "chat_message"}}}

\* C30: the identity a connection acts under is fixed for the connection's
\* lifetime: all user_joined, user_left and chat_message notifications
\* caused by one connection between its connect and its disconnect carry
\* the same sender identity
C30_IdentityFixed ==
    [][(/\ last.op \in SenderHandlers
        /\ last'.op \in SenderHandlers
        /\ last.sid = last'.sid)
        => \A a \in SenderIds(trace) : \A b \in SenderIds(trace') : a = b]_vars

----------------------------------------------------------------------------
(* C31 *)

\* a join, leave or message of a registered connection has just been handled
RegisteredActed ==
    /\ last'.op \in SenderHandlers
    /\ last'.sid \in DOMAIN sid_user_map

\* what the handler of the step does when the sender is identity u,
\* whatever the payload names: the notifications of a join and of a leave
JoinedAs(u) ==
    Emit("user_joined", "room", last'.room, last'.sid,
         [user_id |-> u, user_name |-> "Ann", room |-> last'.room,
          meeting_id |-> last'.room, authenticated |-> "true"])

LeftAs(u) ==
    Emit("user_left", "room", last'.room, last'.sid,
         [user_id |-> u, user_name |-> "Ann", room |-> last'.room,
          authenticated |-> "true"])

\* the row and the dict of a message of identity u
RowAs(u) == new_message(next_id, last'.room, u, "Ann", last'.content, clock)
MessageAs(u) == [to_dict(RowAs(u)) EXCEPT !.authenticated = "true"]

\* C31: for a connection registered under identity u, every join, leave and
\* message it issues uses u as the effective identity regardless of the
\* user_id of the payload: the notifications and the stored message are
\* those of u, the same for every payload user_id
C31_PayloadIdentityIgnored ==
    [][RegisteredActed =>
        LET u == sid_user_map[last'.sid] IN
        /\ last'.op = "join_room" => trace'[1] = JoinedAs(u)
        /\ last'.op = "leave_room" => trace' = <<LeftAs(u)>>
        /\ (last'.op = "chat_message" /\ last'.outcome = "sent") =>
              /\ db' = Append(db, RowAs(u))
              /\ redis' = store_message_in_redis(redis, last'.room, MessageAs(u), 0)
              /\ trace'[3] = Emit("chat_message", "room", last'.room, "", MessageAs(u))
        /\ (last'.op = "chat_message" /\ last'.outcome = "failed") =>
              /\ last'.db_ok => row_raises(last'.room, u)
              /\ UNCHANGED storeVars
        /\ \A i \in DOMAIN trace' :
              (trace'[i].op = "emit" /\ trace'[i].event = "chat_history")
                  => trace'[i].data.messages
                        = get_chat_history_with_user_limit(redis, last'.room, 50, 5, FALSE)]_vars

\* a connection registered as guest_a has sent a message whose payload
\* names guest_b, and the message is stored
C31_Witness ==
    /\ last.op = "chat_message"
    /\ last.outcome = "sent"
    /\ last.sid \in DOMAIN sid_user_map
    /\ sid_user_map[last.sid] = "guest_a"
    /\ last.data_user_id = "guest_b"

----------------------------------------------------------------------------
(* C32 *)

\* the events of the emits of a handler run
EventsOf(tr) == {tr[i].event : i \in {k \in DOMAIN tr : tr[k].op = "emit"}}

\* a message request with a numeric room id and content has just been
\* handled while the database accepts writes
AcceptableMessage ==
    /\ last'.op = "chat_message"
    /\ last'.room \in NumericStrings
    /\ last'.content # ""
    /\ last'.db_ok

\* C32: for each of the three effective-identity cases (authenticated,
\* caller-supplied, transport-derived fallback) a message request carrying
\* both a room id and content is persisted, cached and broadcast to the room
\* whenever the durable store accepts writes; message_error is sent only
\* when a field is missing or the durable write fails
C32_AcceptedForEveryIdentity ==
    [][AcceptableMessage =>
        /\ Len(db') = Len(db) + 1
        /\ db'[Len(db')].content = last'.content
        /\ \E i \in DOMAIN ZGet(redis', HistoryKey(last'.room)) :
              ZGet(redis', HistoryKey(last'.room))[i].member.id = db'[Len(db')].id
        /\ \E i \in DOMAIN trace' :
              /\ trace'[i].op = "emit"
              /\ trace'[i].event = "chat_message"
              /\ trace'[i].kind = "room"
              /\ trace'[i].to = last'.room
        /\ "message_error" \notin EventsOf(trace')]_vars

----------------------------------------------------------------------------
(* C33 *)

\* the emits of the trace that carry this event
EmitsOf(event) == {i \in Emits : trace[i].event = event}

\* C33: every join request that names a room results in exactly one
\* chat_history push, delivered to the joining connection only and after
\* the user_joined broadcast, carrying the diversity-limited view of the
\* room with global cap 50 and per-sender cap 5; user_joined is delivered to
\* the other connections of the room and never to the joining connection
C33_JoinPushesHistoryOnce ==
    (last.op = "join_room" /\ last.room # "") =>
        /\ Cardinality(EmitsOf("chat_history")) = 1
        /\ \A i \in EmitsOf("chat_history") :
              /\ Receivers(trace[i], Open, rooms) = {last.sid}
              /\ trace[i].data.messages
                    = get_chat_history_with_user_limit(redis, last.room, 50, 5, FALSE)
              /\ \A j \in EmitsOf("user_joined") : j < i
        /\ Cardinality(EmitsOf("user_joined")) = 1
        /\ \A j \in EmitsOf("user_joined") :
              Receivers(trace[j], Open, rooms) = rooms[last.room] \ {last.sid}

----------------------------------------------------------------------------
(* C34 *)

\* a registered connection has just sent a meeting_update or a
\* meeting_invitation that names a meeting and a target identity
TargetedSent ==
    /\ last.op \in {"meeting_update", "meeting_invitation"}
    /\ Registered(last.sid)
    /\ last.meeting_id # ""
    /\ truthy(last.target)

TargetConnections == ConnectionsOf(str(last.target))

\* C34: for an authenticated meeting_update or meeting_invitation that names
\* a target identity: if the target is currently registered, exactly the
\* target's registered connections receive the notification and nobody
\* else; if it is not, a meeting_update is delivered to the connections
\* joined to the meeting's room and a meeting_invitation to all connections
C34_TargetedDelivery ==
    TargetedSent =>
        /\ \A i \in Emits : trace[i].event = last.op
        /\ Reached(last.op) =
              IF TargetConnections # {} THEN TargetConnections
              ELSE IF last.op = "meeting_update" THEN rooms[last.meeting_id]
              ELSE Open

----------------------------------------------------------------------------
(* C35 *)

\* the handlers of live connections do their work in the step
HandlerWorks ==
    /\ last'.op = "connect" =>
          /\ last'.sid \in DOMAIN sessions'
          /\ connect_user_id(last'.token) # "" =>
                RegistrationOf(sid_user_map', last'.sid) = connect_user_id(last'.token)
    /\ last'.op = "join_room" =>
          /\ last'.sid \in rooms'[last'.room]
          /\ trace'[1].event = "user_joined"
    /\ (last'.op = "chat_message" /\ ~row_raises(last'.room, last'.active)) =>
          /\ Len(db') = Len(db) + 1
          /\ trace'[Len(trace')] = Emit("chat_message", "room", last'.room, "",
                 [to_dict(db'[Len(db')]) EXCEPT !.authenticated = authenticated(last'.sid)])
    /\ last'.op = "disconnect" =>
          /\ last'.sid \notin DOMAIN sessions'
          /\ last'.sid \notin DOMAIN sid_user_map'
          /\ \A r \in DOMAIN rooms' : last'.sid \notin rooms'[r]

\* C35: loss of the bus connection is terminal for the bridge: once the
\* subscription raised a connection error the subscriber loop has ended and
\* is never restarted, so no bus event published afterwards ever produces a
\* notification, while connect, join, message and disconnect handling of
\* live connections continues to work
C35_BusLossIsTerminal ==
    [][subscriber = "stopped" =>
        /\ subscriber' = "stopped"
        /\ last'.op \in {"bus", "bus_unheard"} => trace' = <<>>
        /\ HandlerWorks]_vars

\* after the loss, an update of meeting 42 has been published while a
\* connection is joined to room "42"
C35_Witness ==
    /\ subscriber = "stopped"
    /\ last.op = "bus_unheard"
    /\ last.message.event_type = "meeting_updated"
    /\ rooms["42"] # {}
    /\ db # <<>>

----------------------------------------------------------------------------
(* C36 *)

\* no two messages of the sequence have the same id
DistinctIds(l) == \A i, j \in DOMAIN l : i # j => l[i].id # l[j].id

\* C36: after any sequence of message sends, history queries with fallback
\* backfill, and transient cache read or write failures, the room's cache
\* never holds two entries for the same message id, so no history view
\* contains the same message twice
C36_NoDuplicateMessage ==
    /\ DistinctIds(ZRange(ZGet(redis, HistoryKey("42")), 0, -1))
    /\ \A N \in 1..MaxLimit : DistinctIds(get_chat_history(redis, "42", N, FALSE))
    /\ \A G \in 0..MaxLimit, P \in 1..MaxLimit :
          DistinctIds(get_chat_history_with_user_limit(redis, "42", G, P, FALSE))

----------------------------------------------------------------------------
(* C37 *)

\* C37: a sender that receives message_error for a message request can rely
\* on the message not existing: whenever handle_chat_message emits
\* message_error, that message is neither committed to the durable store,
\* nor present in the cache, nor delivered to any connection as chat_message
C37_ErrorMeansNoMessage ==
    [][(last'.op = "chat_message" /\ "message_error" \in EventsOf(trace'))
        => /\ db' = db
           /\ redis' = redis
           /\ "chat_message" \notin EventsOf(trace')]_vars

----------------------------------------------------------------------------
(* C38 *)

\* the connection of the step is joined to the room of its request when
\* the request arrives
SenderIsMember ==
    /\ last'.room \in DOMAIN rooms
    /\ last'.sid \in rooms[last'.room]

\* C38: room traffic comes only from room members: a chat_message is
\* broadcast to room r, and a user_left is broadcast to room r, only on
\* behalf of a connection that is joined to r at that moment
C38_TrafficFromMembers ==
    [][/\ (last'.op = "chat_message" /\ "chat_message" \in EventsOf(trace'))
            => SenderIsMember
       /\ (last'.op = "leave_room" /\ "user_left" \in EventsOf(trace'))
            => SenderIsMember]_vars

====
